---------------------------- MODULE Spec2Model ----------------------------
(***************************************************************************)
(* A model of cocoon's colorspace registry (datasets/build.py and          *)
(* datasets/browse.py), of the RgbColorspace entity (base.py) and of the   *)
(* transformation engine (transformations.py).                             *)
(*                                                                         *)
(* Conventions.                                                            *)
(*  - A Python str is a sequence of one-character strings, so that         *)
(*    simplify() is computed character by character.                       *)
(*  - A Python object is a record with an "id" field (its identity); value *)
(*    equality (__eq__) never reads "id".                                  *)
(*  - Floating point numbers are integers: matrix and vector products are  *)
(*    exact.  repr() of an array prints a bounded number of digits, which  *)
(*    is modelled by dropping the lowest unit of every entry.              *)
(*  - A call returns a record whose "status" is "ok" or the name of the    *)
(*    exception that ended it.                                             *)
(***************************************************************************)
EXTENDS Integers, Sequences, FiniteSets, TLC

(***************************************************************************)
(* cocoon/utils.py: simplify                                               *)
(***************************************************************************)
UpperChars == <<"A","B","C","D","E","F","G","H","I","J","K","L","M",
                "N","O","P","Q","R","S","T","U","V","W","X","Y","Z">>
LowerChars == <<"a","b","c","d","e","f","g","h","i","j","k","l","m",
                "n","o","p","q","r","s","t","u","v","w","x","y","z">>

\* A character outside ASCII with no NFKD decomposition (the right single
\* quotation mark of the Pointer's gamut description).
NonAsciiChar == "U+2019"

\* unicodedata.normalize("NFKD", value).encode("ascii", "ignore").decode("ascii")
AsciiFold(value) == SelectSeq(value, LAMBDA c : c # NonAsciiChar)

\* str.lower()
LowerChar(c) ==
    IF \E i \in 1..Len(UpperChars) : UpperChars[i] = c
    THEN LowerChars[CHOOSE i \in 1..Len(UpperChars) : UpperChars[i] = c]
    ELSE c

Lower(value) == [i \in 1..Len(value) |-> LowerChar(value[i])]

\* the character class [\s\\/'\"]
SeparatorChars == {" ", "\t", "\n", "\\", "/", "'", "\""}

\* the character class [()\[\]{}]
BracketChars == {"(", ")", "[", "]", "{", "}"}

RECURSIVE DropLeading(_, _)
DropLeading(value, chars) ==
    IF value # <<>> /\ Head(value) \in chars
    THEN DropLeading(Tail(value), chars)
    ELSE value

\* re.sub(r"[\s\\/'\"]+", "-", value)
RECURSIVE SubSeparators(_)
SubSeparators(value) ==
    IF value = <<>> THEN <<>>
    ELSE IF Head(value) \in SeparatorChars
         THEN <<"-">> \o SubSeparators(DropLeading(Tail(value), SeparatorChars))
         ELSE <<Head(value)>> \o SubSeparators(Tail(value))

\* re.sub(r"[()\[\]{}]", "", value)
SubBrackets(value) == SelectSeq(value, LAMBDA c : c \notin BracketChars)

\* re.sub(r"-{2,}", "--", value)
RECURSIVE SubHyphens(_)
SubHyphens(value) ==
    IF value = <<>> THEN <<>>
    ELSE IF Head(value) = "-" /\ Len(value) >= 2 /\ value[2] = "-"
         THEN <<"-", "-">> \o SubHyphens(DropLeading(value, {"-"}))
         ELSE <<Head(value)>> \o SubHyphens(Tail(value))

simplify(object_) ==
    SubHyphens(SubBrackets(SubSeparators(Lower(AsciiFold(object_)))))


(***************************************************************************)
(* Absent values.  NoneObject is an absent object, NoArray an absent       *)
(* numpy array, NoCallable an absent callable and NoTransform an absent    *)
(* ChromaticAdaptationTransform.                                           *)
(***************************************************************************)
NoArray == <<>>
NoCallable == "None"
NoTransform == "None"
NoneObject == [none |-> TRUE]

(***************************************************************************)
(* numpy arrays.  A vector is a tuple of integers and a matrix a tuple of  *)
(* rows.                                                                   *)
(***************************************************************************)
\* numpy.identity(3)
Identity3 == << <<1, 0, 0>>, <<0, 1, 0>>, <<0, 0, 1>> >>

\* numpy.array_equal(a, b)
array_equal(a, b) == a = b

\* repr() of a number inside an array: the printed digits drop the lowest unit.
ReprNumber(x) == IF x >= 0 THEN x \div 2 ELSE 0 - ((0 - x) \div 2)

\* repr(array) of a vector (repr(None) is the empty print)
ReprVector(a) == [i \in 1..Len(a) |-> ReprNumber(a[i])]

\* repr(array) of a matrix (repr(None) is the empty print)
ReprMatrix(m) == [i \in 1..Len(m) |-> ReprVector(m[i])]

\* colour.algebra.vector_dot(m, v): the matrix-vector product
vector_dot(m, v) ==
    [i \in 1..3 |-> m[i][1] * v[1] + m[i][2] * v[2] + m[i][3] * v[3]]

\* colour.algebra.matrix_dot(a, b): the matrix product
matrix_dot(a, b) ==
    [i \in 1..3 |-> [j \in 1..3 |->
        a[i][1] * b[1][j] + a[i][2] * b[2][j] + a[i][3] * b[3][j]]]

(***************************************************************************)
(* cocoon/colorspaces/base.py: the components                              *)
(***************************************************************************)
Whitepoint(name, coordinates) ==
    [class |-> "Whitepoint", name |-> name, coordinates |-> coordinates]

Whitepoint_tuplerepr(w) == <<"Whitepoint", w.name, ReprVector(w.coordinates)>>

ColorspaceGamut(name, primaries) ==
    [class |-> "ColorspaceGamut", name |-> name, primaries |-> primaries]

ColorspaceGamut_tuplerepr(g) == <<"ColorspaceGamut", g.name, ReprMatrix(g.primaries)>>

TransferFunctions(name, encoding, decoding) ==
    [class |-> "TransferFunctions", name |-> name,
     encoding |-> encoding, decoding |-> decoding]

is_encoding_linear(tf) == tf.encoding = NoCallable

is_decoding_linear(tf) == tf.decoding = NoCallable

\* transfer functions that count as linear when one direction is
are_linear_either(tf) == is_encoding_linear(tf) \/ is_decoding_linear(tf)

are_linear(tf) == is_encoding_linear(tf) /\ is_decoding_linear(tf)

\* callables are compared by identity: a callable is its handle
TransferFunctions_tuplerepr(tf) ==
    <<"TransferFunctions", tf.name, tf.encoding, tf.decoding,
      is_encoding_linear(tf), is_decoding_linear(tf)>>

TRANSFER_FUNCTIONS_LINEAR ==
    TransferFunctions(<<"C","C","T","F"," ","L","i","n","e","a","r">>,
                      NoCallable, NoCallable)

(***************************************************************************)
(* cocoon/colorspaces/base.py: RgbColorspace                               *)
(***************************************************************************)
RgbColorspace(id, name, gamut, whitepoint, transfer_functions, categories, description, matrix_to_XYZ, matrix_from_XYZ, linear_source, to_derived, from_derived) ==
    [id |-> id, name |-> name, gamut |-> gamut, whitepoint |-> whitepoint,
     transfer_functions |-> transfer_functions, categories |-> categories,
     description |-> description, matrix_to_XYZ |-> matrix_to_XYZ,
     matrix_from_XYZ |-> matrix_from_XYZ, linear_source |-> linear_source,
     matrix_to_XYZ_derived |-> to_derived,
     matrix_from_XYZ_derived |-> from_derived]

\* BaseColorspaceComponent.name_simplified
name_simplified(c) == simplify(c.name)

\* a _tuplerepr without the description
RgbColorspace_tuplerepr_undescribed(c) ==
    <<"RgbColorspace",
      c.name,
      IF c.gamut = NoneObject THEN <<>> ELSE ColorspaceGamut_tuplerepr(c.gamut),
      IF c.whitepoint = NoneObject THEN <<>> ELSE Whitepoint_tuplerepr(c.whitepoint),
      IF c.transfer_functions = NoneObject THEN <<>>
      ELSE TransferFunctions_tuplerepr(c.transfer_functions),
      c.categories,
      ReprMatrix(c.matrix_to_XYZ),
      ReprMatrix(c.matrix_from_XYZ)>>

\* RgbColorspace._tuplerepr; a component stands for its own _tuplerepr, which is
\* what the comparison of two tuples compares
RgbColorspace_tuplerepr(c) ==
    <<"RgbColorspace",
      c.name,
      IF c.gamut = NoneObject THEN <<>> ELSE ColorspaceGamut_tuplerepr(c.gamut),
      IF c.whitepoint = NoneObject THEN <<>> ELSE Whitepoint_tuplerepr(c.whitepoint),
      IF c.transfer_functions = NoneObject THEN <<>>
      ELSE TransferFunctions_tuplerepr(c.transfer_functions),
      c.categories,
      c.description,
      ReprMatrix(c.matrix_to_XYZ),
      ReprMatrix(c.matrix_from_XYZ)>>

\* an equality that compares every field
ColorspaceEq_fields(a, b) == a = b

\* BaseColorspaceComponent.__eq__ on two RgbColorspace
ColorspaceEq(a, b) == RgbColorspace_tuplerepr(a) = RgbColorspace_tuplerepr(b)

\* a hash that is the same for every colorspace
ColorspaceHash_constant(c) == <<>>

\* BaseColorspaceComponent.__hash__ on a RgbColorspace: equal tuples hash equal
ColorspaceHash(c) == RgbColorspace_tuplerepr(c)

\* an is_no_op that looks at the gamut and not at the matrices
is_no_op_gamut_alone(c) ==
    /\ c.gamut = NoneObject
    /\ c.whitepoint = NoneObject
    /\ \/ c.transfer_functions = NoneObject
       \/ (c.transfer_functions.decoding = NoCallable
           /\ c.transfer_functions.encoding = NoCallable)

\* RgbColorspace.is_no_op
is_no_op(c) ==
    LET has_gamut ==
            \/ c.gamut # NoneObject
            \/ (c.matrix_from_XYZ # NoArray
                /\ ~array_equal(c.matrix_from_XYZ, Identity3))
            \/ (c.matrix_to_XYZ # NoArray
                /\ ~array_equal(c.matrix_to_XYZ, Identity3))
        has_whitepoint == c.whitepoint # NoneObject
        has_transfer_function ==
            /\ c.transfer_functions # NoneObject
            /\ (c.transfer_functions.decoding # NoCallable
                \/ c.transfer_functions.encoding # NoCallable)
    IN ~has_gamut /\ ~has_whitepoint /\ ~has_transfer_function

\* colour.normalised_primary_matrix(primaries, whitepoint): the external
\* algorithm, kept as a function of its two arguments whose result is invertible
normalised_primary_matrix(primaries, whitepoint) ==
    << <<1, primaries[1][1] - whitepoint[1], primaries[2][2] - whitepoint[2]>>,
       <<0, 1, primaries[3][1]>>,
       <<0, 0, 1>> >>

\* numpy.linalg.inv(m) of a matrix with a unit diagonal and zeros below it
linalg_inv(m) ==
    << <<1, 0 - m[1][2], m[1][2] * m[2][3] - m[1][3]>>,
       <<0, 1, 0 - m[2][3]>>,
       <<0, 0, 1>> >>

\* RgbColorspace.compute_matrix_to_XYZ_from
compute_matrix_to_XYZ_from(gamut, whitepoint) ==
    normalised_primary_matrix(gamut.primaries, whitepoint.coordinates)

\* a from-XYZ matrix that is not inverted
compute_matrix_from_XYZ_from_direct(gamut, whitepoint) ==
    compute_matrix_to_XYZ_from(gamut, whitepoint)

\* RgbColorspace.compute_matrix_from_XYZ_from
compute_matrix_from_XYZ_from(gamut, whitepoint) ==
    linalg_inv(compute_matrix_to_XYZ_from(gamut, whitepoint))

(***************************************************************************)
(* Instances.  The methods of RgbColorspace that build colorspaces work on *)
(* an instance [value, refs]: value is the colorspace, whose id is the     *)
(* identity of the object, and refs gives, for every component and matrix  *)
(* the object holds, the identity of the object held (0: None).  A new     *)
(* object with identity id that builds its own components holds the        *)
(* objects Ref(id, 1) .. Ref(id, 5).  An argument is [value, ref].         *)
(***************************************************************************)
Ref(id, k) == id * 10 + k

\* the object TRANSFER_FUNCTIONS_LINEAR of base.py
TRANSFER_FUNCTIONS_LINEAR_ref == Ref(0, 3)

OwnRefs(c) ==
    [gamut |-> IF c.gamut = NoneObject THEN 0 ELSE Ref(c.id, 1),
     whitepoint |-> IF c.whitepoint = NoneObject THEN 0 ELSE Ref(c.id, 2),
     transfer_functions |->
        IF c.transfer_functions = NoneObject THEN 0 ELSE Ref(c.id, 3),
     matrix_to_XYZ |-> IF c.matrix_to_XYZ = NoArray THEN 0 ELSE Ref(c.id, 4),
     matrix_from_XYZ |-> IF c.matrix_from_XYZ = NoArray THEN 0 ELSE Ref(c.id, 5)]

InstanceOf(c) == [value |-> c, refs |-> OwnRefs(c)]

\* a copy that keeps the object held as _linear_source
deepcopy_colorspace_shallow(c, new_id) == [c EXCEPT !.id = new_id]

\* copy.deepcopy of a colorspace: a new object, and a new object for the
\* colorspace it holds as _linear_source
RECURSIVE deepcopy_colorspace(_, _)
deepcopy_colorspace(c, new_id) ==
    [c EXCEPT !.id = new_id,
              !.linear_source =
                  IF c.linear_source = NoneObject THEN NoneObject
                  ELSE deepcopy_colorspace(c.linear_source, new_id + 1)]

\* RgbColorspace.copy: every component and matrix of the copy is a new object;
\* deepcopy returns a function as it is, so the callables are shared
copy(self, new_id) == InstanceOf(deepcopy_colorspace(self.value, new_id))

\* " Linear"
LinearSuffix == <<" ","L","i","n","e","a","r">>

\* a linear copy that is a copy and no more
as_linear_copy_plain(self, new_id) == copy(self, new_id + 1)

\* RgbColorspace.as_linear_copy; the copy takes the identities from new_id + 1
\* on and the colorspace built from it the identity new_id
as_linear_copy(self, new_id) ==
    LET new_colorspace == copy(self, new_id + 1)
    IN IF \/ self.value.transfer_functions = NoneObject
          \/ are_linear(self.value.transfer_functions)
       THEN new_colorspace
       ELSE [value |->
                RgbColorspace(new_id,
                    new_colorspace.value.name \o LinearSuffix,
                    new_colorspace.value.gamut,
                    new_colorspace.value.whitepoint,
                    TRANSFER_FUNCTIONS_LINEAR,
                    new_colorspace.value.categories,
                    new_colorspace.value.description,
                    new_colorspace.value.matrix_to_XYZ,
                    new_colorspace.value.matrix_from_XYZ,
                    self.value, FALSE, FALSE),
             refs |-> [new_colorspace.refs EXCEPT
                          !.transfer_functions = TRANSFER_FUNCTIONS_LINEAR_ref]]

\* RgbColorspace.is_linear_copy
is_linear_copy(self) == self.value.linear_source # NoneObject

\* RgbColorspace.retrieve_linear_source
retrieve_linear_source(self) == self.value.linear_source

\* RgbColorspace.with_gamut: the three arguments are held as they are given
with_gamut(self, new_gamut, matrix_to_XYZ, matrix_from_XYZ, new_id) ==
    LET new_colorspace == copy(self, new_id + 1)
    IN [value |->
           RgbColorspace(new_id,
               new_colorspace.value.name,
               new_gamut.value,
               new_colorspace.value.whitepoint,
               new_colorspace.value.transfer_functions,
               new_colorspace.value.categories,
               new_colorspace.value.description,
               matrix_to_XYZ.value,
               matrix_from_XYZ.value,
               new_colorspace.value.linear_source, FALSE, FALSE),
        refs |-> [new_colorspace.refs EXCEPT
                     !.gamut = new_gamut.ref,
                     !.matrix_to_XYZ = matrix_to_XYZ.ref,
                     !.matrix_from_XYZ = matrix_from_XYZ.ref]]

\* RgbColorspace.with_whitepoint
with_whitepoint(self, new_whitepoint, matrix_to_XYZ, matrix_from_XYZ, new_id) ==
    LET new_colorspace == copy(self, new_id + 1)
    IN [value |->
           RgbColorspace(new_id,
               new_colorspace.value.name,
               new_colorspace.value.gamut,
               new_whitepoint.value,
               new_colorspace.value.transfer_functions,
               new_colorspace.value.categories,
               new_colorspace.value.description,
               matrix_to_XYZ.value,
               matrix_from_XYZ.value,
               new_colorspace.value.linear_source, FALSE, FALSE),
        refs |-> [new_colorspace.refs EXCEPT
                     !.whitepoint = new_whitepoint.ref,
                     !.matrix_to_XYZ = matrix_to_XYZ.ref,
                     !.matrix_from_XYZ = matrix_from_XYZ.ref]]

\* RgbColorspace.with_transfer_functions
with_transfer_functions(self, new_transfer_functions, new_id) ==
    LET new_colorspace == copy(self, new_id + 1)
    IN [value |->
           RgbColorspace(new_id,
               new_colorspace.value.name,
               new_colorspace.value.gamut,
               new_colorspace.value.whitepoint,
               new_transfer_functions.value,
               new_colorspace.value.categories,
               new_colorspace.value.description,
               new_colorspace.value.matrix_to_XYZ,
               new_colorspace.value.matrix_from_XYZ,
               new_colorspace.value.linear_source, FALSE, FALSE),
        refs |-> [new_colorspace.refs EXCEPT
                     !.transfer_functions = new_transfer_functions.ref]]

\* an optional argument: given is FALSE when it is None or left out
NotGiven(empty) == [given |-> FALSE, value |-> empty]

Given(value) == [given |-> TRUE, value |-> value]

\* RgbColorspace.with_descriptives: "new_name or name" keeps the name for None
\* and for the empty str, as for the description; the categories are kept for
\* None alone
with_descriptives(self, new_name, new_description, new_categories, new_id) ==
    LET new_colorspace == copy(self, new_id + 1)
    IN [value |->
           RgbColorspace(new_id,
               IF new_name.given /\ new_name.value # <<>>
               THEN new_name.value ELSE new_colorspace.value.name,
               new_colorspace.value.gamut,
               new_colorspace.value.whitepoint,
               new_colorspace.value.transfer_functions,
               IF new_categories.given
               THEN new_categories.value ELSE new_colorspace.value.categories,
               IF new_description.given /\ new_description.value # ""
               THEN new_description.value ELSE new_colorspace.value.description,
               new_colorspace.value.matrix_to_XYZ,
               new_colorspace.value.matrix_from_XYZ,
               new_colorspace.value.linear_source, FALSE, FALSE),
        refs |-> new_colorspace.refs]

\* RgbColorspace.with_derived_matrices; the matrices it computes are new arrays
with_derived_matrices(self, new_id) ==
    IF self.value.gamut = NoneObject \/ self.value.whitepoint = NoneObject
    THEN with_gamut(self,
                    [value |-> self.value.gamut, ref |-> self.refs.gamut],
                    [value |-> NoArray, ref |-> 0],
                    [value |-> NoArray, ref |-> 0],
                    new_id)
    ELSE
    LET matrix_to_XYZ ==
            compute_matrix_to_XYZ_from(self.value.gamut, self.value.whitepoint)
        matrix_from_XYZ ==
            compute_matrix_from_XYZ_from(self.value.gamut, self.value.whitepoint)
        new_colorspace == copy(self, new_id + 1)
    IN [value |->
           RgbColorspace(new_id,
               new_colorspace.value.name,
               new_colorspace.value.gamut,
               new_colorspace.value.whitepoint,
               new_colorspace.value.transfer_functions,
               new_colorspace.value.categories,
               new_colorspace.value.description,
               matrix_to_XYZ,
               matrix_from_XYZ,
               new_colorspace.value.linear_source, TRUE, TRUE),
        refs |-> [new_colorspace.refs EXCEPT
                     !.matrix_to_XYZ = Ref(new_id, 4),
                     !.matrix_from_XYZ = Ref(new_id, 5)]]

\* ColorspaceGamut.from_colour_colorspace
ColorspaceGamut_from_colour_colorspace(colour_colorspace) ==
    ColorspaceGamut(<<"G","a","m","u","t"," ">> \o colour_colorspace.name,
                    colour_colorspace.primaries)

\* Whitepoint.from_colour_colorspace
Whitepoint_from_colour_colorspace(colour_colorspace) ==
    Whitepoint(colour_colorspace.whitepoint_name, colour_colorspace.whitepoint)

\* TransferFunctions.from_colour_colorspace
TransferFunctions_from_colour_colorspace(colour_colorspace) ==
    TransferFunctions(
        <<"C","C","T","F"," ">> \o colour_colorspace.name,
        IF colour_colorspace.cctf_encoding # "linear_function"
        THEN colour_colorspace.cctf_encoding ELSE NoCallable,
        IF colour_colorspace.cctf_decoding # "linear_function"
        THEN colour_colorspace.cctf_decoding ELSE NoCallable)

\* RgbColorspace.from_colour_colorspace (description is never given by build.py)
RgbColorspace_from_colour_colorspace(id, colour_colorspace, categories) ==
    RgbColorspace(id,
                  colour_colorspace.name,
                  ColorspaceGamut_from_colour_colorspace(colour_colorspace),
                  Whitepoint_from_colour_colorspace(colour_colorspace),
                  TransferFunctions_from_colour_colorspace(colour_colorspace),
                  categories,
                  colour_colorspace.doc,
                  colour_colorspace.matrix_RGB_to_XYZ,
                  colour_colorspace.matrix_XYZ_to_RGB,
                  NoneObject,
                  colour_colorspace.use_derived_matrix_RGB_to_XYZ,
                  colour_colorspace.use_derived_matrix_XYZ_to_RGB)

(***************************************************************************)
(* The external dataset colour.models.rgb.datasets: the records of the     *)
(* colorspaces that the tests of the repository name.  Numbers are small   *)
(* integers; every to-XYZ matrix has its inverse as from-XYZ matrix.       *)
(***************************************************************************)
ColourColorspace(name, whitepoint_name, whitepoint, primaries, cctf_encoding, cctf_decoding, matrix_RGB_to_XYZ, doc) ==
    [name |-> name, whitepoint_name |-> whitepoint_name,
     whitepoint |-> whitepoint, primaries |-> primaries,
     cctf_encoding |-> cctf_encoding, cctf_decoding |-> cctf_decoding,
     matrix_RGB_to_XYZ |-> matrix_RGB_to_XYZ,
     matrix_XYZ_to_RGB |-> linalg_inv(matrix_RGB_to_XYZ),
     use_derived_matrix_RGB_to_XYZ |-> FALSE,
     use_derived_matrix_XYZ_to_RGB |-> FALSE,
     doc |-> doc]

colour_dataset(attribute) ==
    CASE attribute = "RGB_COLOURSPACE_ACES2065_1" ->
            ColourColorspace(<<"A","C","E","S","2","0","6","5","-","1">>,
                <<"D","6","0">>, <<4, 6>>,
                << <<14, 6>>, <<0, 20>>, <<0, 0>> >>,
                "linear_function", "linear_function",
                << <<1, 2, 0>>, <<0, 1, 4>>, <<0, 0, 1>> >>, "ACES2065-1 doc")
      [] attribute = "RGB_COLOURSPACE_ACESCG" ->
            ColourColorspace(<<"A","C","E","S","c","g">>,
                <<"D","6","0">>, <<4, 6>>,
                << <<14, 6>>, <<2, 16>>, <<2, 0>> >>,
                "linear_function", "linear_function",
                << <<1, 4, 2>>, <<0, 1, 2>>, <<0, 0, 1>> >>, "ACEScg doc")
      [] attribute = "RGB_COLOURSPACE_ADOBE_RGB1998" ->
            ColourColorspace(<<"A","d","o","b","e"," ","R","G","B"," ","(","1","9","9","8",")">>,
                <<"D","6","5">>, <<6, 6>>,
                << <<12, 6>>, <<4, 14>>, <<2, 0>> >>,
                "gamma_encoding", "gamma_decoding",
                << <<1, 2, 2>>, <<0, 1, 0>>, <<0, 0, 1>> >>, "Adobe RGB (1998) doc")
      [] attribute = "RGB_COLOURSPACE_DCI_P3_P" ->
            ColourColorspace(<<"D","C","I","-","P","3","-","P">>,
                <<"D","C","I","-","P","3">>, <<6, 8>>,
                << <<14, 6>>, <<4, 16>>, <<2, 0>> >>,
                "gamma_encoding", "gamma_decoding",
                << <<1, 0, 2>>, <<0, 1, 2>>, <<0, 0, 1>> >>, "DCI-P3-P doc")
      [] attribute = "RGB_COLOURSPACE_sRGB" ->
            ColourColorspace(<<"s","R","G","B">>,
                <<"D","6","5">>, <<6, 6>>,
                << <<12, 6>>, <<6, 12>>, <<2, 0>> >>,
                "eotf_inverse_sRGB", "eotf_sRGB",
                << <<1, 2, 4>>, <<0, 1, 2>>, <<0, 0, 1>> >>, "sRGB doc")

(***************************************************************************)
(* cocoon/colorspaces/datasets/build.py.  The registry _COLORSPACES is a   *)
(* Python dict: a sequence of [key, value] in insertion order, no key      *)
(* twice.                                                                  *)
(***************************************************************************)
DictHas(d, k) == \E i \in 1..Len(d) : d[i].key = k

DictGet(d, k) == d[CHOOSE i \in 1..Len(d) : d[i].key = k].value

\* d[k] = v
DictSet(d, k, v) ==
    IF DictHas(d, k)
    THEN [i \in 1..Len(d) |-> IF d[i].key = k THEN [key |-> k, value |-> v] ELSE d[i]]
    ELSE Append(d, [key |-> k, value |-> v])

\* d.pop(k), for a key that d has
DictPop(d, k) == SelectSeq(d, LAMBDA item : item.key # k)

DictKeys(d) == [i \in 1..Len(d) |-> d[i].key]

DictValues(d) == [i \in 1..Len(d) |-> d[i].value]

SeqToSet(s) == {s[i] : i \in 1..Len(s)}

\* the loop "for alias in additional_aliases" of _add_colorspace
RECURSIVE AddAliases(_, _, _)
AddAliases(registry, colorspace, additional_aliases) ==
    IF additional_aliases = <<>> THEN registry
    ELSE AddAliases(DictSet(registry, Head(additional_aliases), colorspace),
                    colorspace, Tail(additional_aliases))

\* a registration that stores another object under every alias
add_colorspace_alias_objects(registry, colorspace, additional_aliases) ==
    AddAliases(
        DictSet(DictSet(registry, colorspace.name, colorspace),
                name_simplified(colorspace), colorspace),
        [colorspace EXCEPT !.id = colorspace.id + 100], additional_aliases)

add_colorspace(registry, colorspace, additional_aliases) ==
    AddAliases(
        DictSet(DictSet(registry, colorspace.name, colorspace),
                name_simplified(colorspace), colorspace),
        colorspace, additional_aliases)

\* cocoon.cfg.colorspaces_use_derived_transformation_matrices is a setting of
\* the user: derived is its value
patch_colour_colorspace(colorspace, derived) ==
    LET with_matrices ==
            IF derived
            THEN [colorspace EXCEPT
                    !.use_derived_matrix_RGB_to_XYZ = TRUE,
                    !.use_derived_matrix_XYZ_to_RGB = TRUE,
                    !.matrix_RGB_to_XYZ =
                        normalised_primary_matrix(colorspace.primaries, colorspace.whitepoint),
                    !.matrix_XYZ_to_RGB =
                        linalg_inv(normalised_primary_matrix(colorspace.primaries,
                                                             colorspace.whitepoint))]
            ELSE colorspace
    IN IF with_matrices.name = <<"s","R","G","B">>
       THEN [with_matrices EXCEPT
                !.name = <<"s","R","G","B"," ","P","i","e","c","e","w","i","s","e">>]
       ELSE with_matrices

\* the entries of colour_colorspace_config whose colorspaces the dataset above holds
colour_colorspace_config ==
    << [attribute |-> "RGB_COLOURSPACE_ACES2065_1", category |-> <<"aces">>,
        aliases |-> << <<"a","c","e","s">>, <<"a","p","0">> >>],
       [attribute |-> "RGB_COLOURSPACE_ACESCG",
        category |-> <<"aces", "working_space">>,
        aliases |-> << <<"a","p","1">> >>],
       [attribute |-> "RGB_COLOURSPACE_ADOBE_RGB1998", category |-> <<"common">>,
        aliases |-> <<>>],
       [attribute |-> "RGB_COLOURSPACE_DCI_P3_P", category |-> <<"p3">>,
        aliases |-> <<>>],
       [attribute |-> "RGB_COLOURSPACE_sRGB",
        category |-> <<"working_space", "common">>,
        aliases |-> << <<"s","r","g","b">>, <<"s","R","G","B">> >>] >>

\* the loop of _load_colour_colorspaces from entry i on; the i-th entry builds the
\* object of identity first_id + i
RECURSIVE LoadColourFrom(_, _, _, _)
LoadColourFrom(registry, i, first_id, derived) ==
    IF i > Len(colour_colorspace_config) THEN registry
    ELSE LET colorspace_data == colour_colorspace_config[i]
             colour_colorspace_patched ==
                 patch_colour_colorspace(colour_dataset(colorspace_data.attribute),
                                         derived)
             colorspace ==
                 RgbColorspace_from_colour_colorspace(
                     first_id + i, colour_colorspace_patched,
                     colorspace_data.category)
         IN LoadColourFrom(
                add_colorspace(registry, colorspace, colorspace_data.aliases),
                i + 1, first_id, derived)

load_colour_colorspaces(registry, first_id, derived) ==
    LoadColourFrom(registry, 1, first_id, derived)

COLORSPACE_POINTER_GAMUT_NAME ==
    <<"P","o","i","n","t","e","r","'","s"," ","G","a","m","u","t">>

\* colour.models.CCS_ILLUMINANT_POINTER_GAMUT
CCS_ILLUMINANT_POINTER_GAMUT == <<6, 7>>

\* _load_colorspaces, run on the dict registry; the objects it builds take the
\* identities that follow first_id
load_colorspaces(registry, first_id, derived) ==
    LET n == Len(colour_colorspace_config)
        passthrough ==
            RgbColorspace(first_id + n + 1,
                <<"P","a","s","s","t","h","r","o","u","g","h">>,
                NoneObject, NoneObject, NoneObject,
                <<"common", "special">>,
                "A 'null' colorspace that does nothing.",
                NoArray, NoArray, NoneObject, FALSE, FALSE)
        whitepoint ==
            Whitepoint(COLORSPACE_POINTER_GAMUT_NAME
                           \o <<" ","W","h","i","t","e","p","o","i","n","t">>,
                       CCS_ILLUMINANT_POINTER_GAMUT)
        pointer ==
            RgbColorspace(first_id + n + 2,
                COLORSPACE_POINTER_GAMUT_NAME,
                NoneObject, whitepoint, NoneObject,
                <<"special">>,
                "The Pointer's gamut",
                NoArray, NoArray, NoneObject, FALSE, FALSE)
    IN add_colorspace(
           add_colorspace(load_colour_colorspaces(registry, first_id, derived),
                          passthrough,
                          << <<"r","a","w">>, <<"n","u","l","l">> >>),
           pointer, <<>>)

(***************************************************************************)
(* Python's order on str: by code point, character by character.           *)
(***************************************************************************)
\* the ASCII characters of the model in code point order
CodePointOrder ==
    <<"\t", "\n", " ", "\"", "'", "(", ")", "-", ".", "/",
      "0","1","2","3","4","5","6","7","8","9",
      "A","B","C","D","E","F","G","H","I","J","K","L","M",
      "N","O","P","Q","R","S","T","U","V","W","X","Y","Z",
      "[", "\\", "]",
      "a","b","c","d","e","f","g","h","i","j","k","l","m",
      "n","o","p","q","r","s","t","u","v","w","x","y","z",
      "{", "}">>

CodePoint(c) == CHOOSE i \in 1..Len(CodePointOrder) : CodePointOrder[i] = c

\* a <= b on str
RECURSIVE StrLessEq(_, _)
StrLessEq(a, b) ==
    IF a = <<>> THEN TRUE
    ELSE IF b = <<>> THEN FALSE
    ELSE IF Head(a) = Head(b) THEN StrLessEq(Tail(a), Tail(b))
    ELSE CodePoint(Head(a)) < CodePoint(Head(b))

\* sorted(items, key=...): a stable insertion sort of [sortkey, item] pairs
RECURSIVE InsertSorted(_, _)
InsertSorted(sorted_pairs, pair) ==
    IF sorted_pairs = <<>> THEN <<pair>>
    ELSE IF StrLessEq(Head(sorted_pairs).sortkey, pair.sortkey)
         THEN <<Head(sorted_pairs)>> \o InsertSorted(Tail(sorted_pairs), pair)
         ELSE <<pair>> \o sorted_pairs

RECURSIVE SortedPairs(_)
SortedPairs(pairs) ==
    IF pairs = <<>> THEN <<>>
    ELSE InsertSorted(SortedPairs(SubSeq(pairs, 1, Len(pairs) - 1)),
                      pairs[Len(pairs)])

PairItems(pairs) == [i \in 1..Len(pairs) |-> pairs[i].item]

(***************************************************************************)
(* cocoon/colorspaces/datasets/browse.py, as functions of the registry     *)
(* _COLORSPACES and of the list _COLORSPACES_KEYS_DISABLED.  A result is   *)
(* [status, value]: status is "ok" or "KeyError".                          *)
(***************************************************************************)
\* [dataset.pop(key) for key in _COLORSPACES_KEYS_DISABLED]
RECURSIVE PopKeys(_, _)
PopKeys(dataset, keys) ==
    IF keys = <<>> THEN [status |-> "ok", value |-> dataset]
    ELSE IF ~DictHas(dataset, Head(keys))
         THEN [status |-> "KeyError", value |-> dataset]
         ELSE PopKeys(DictPop(dataset, Head(keys)), Tail(keys))

\* a dataset that keeps the disabled keys
colorspaces_dataset_whole(registry, disabled) == [status |-> "ok", value |-> registry]

\* _colorspaces_dataset: a copy of the registry without the disabled keys
colorspaces_dataset(registry, disabled) == PopKeys(registry, disabled)

\* a lookup of aliases that finds the canonical name alone
get_colorspace_aliases_canonical(registry, disabled, colorspace) ==
    LET dataset == colorspaces_dataset(registry, disabled)
    IN IF dataset.status # "ok" THEN [status |-> dataset.status, value |-> <<>>]
       ELSE [status |-> "ok",
             value |-> DictKeys(SelectSeq(dataset.value,
                          LAMBDA item : item.key = colorspace.name))]

\* a lookup of aliases in the whole registry, the disabled keys with it
get_colorspace_aliases_registry(registry, disabled, colorspace) ==
    [status |-> "ok",
     value |-> DictKeys(SelectSeq(registry,
                  LAMBDA item : ColorspaceEq(colorspace, item.value)))]

\* _get_colorspace_aliases: the keys of the enabled dataset whose colorspace
\* equals the given one
get_colorspace_aliases(registry, disabled, colorspace) ==
    LET dataset == colorspaces_dataset(registry, disabled)
    IN IF dataset.status # "ok" THEN [status |-> dataset.status, value |-> <<>>]
       ELSE [status |-> "ok",
             value |-> DictKeys(SelectSeq(dataset.value,
                          LAMBDA item : ColorspaceEq(colorspace, item.value)))]

\* list(set(items)) for colorspaces: one item of every class of equal items
RECURSIVE UniqueColorspaces(_)
UniqueColorspaces(items) ==
    IF items = <<>> THEN <<>>
    ELSE <<Head(items)>>
         \o UniqueColorspaces(SelectSeq(Tail(items),
                LAMBDA c : ~ColorspaceEq(c, Head(items))))

get_colorspace_name(colorspace) == colorspace.name

SortedByName(colorspaces) ==
    PairItems(SortedPairs([i \in 1..Len(colorspaces) |->
        [sortkey |-> get_colorspace_name(colorspaces[i]), item |-> colorspaces[i]]]))

get_available_colorspaces(registry, disabled) ==
    LET dataset == colorspaces_dataset(registry, disabled)
    IN IF dataset.status # "ok" THEN [status |-> dataset.status, value |-> <<>>]
       ELSE [status |-> "ok",
             value |-> SortedByName(UniqueColorspaces(DictValues(dataset.value)))]

SortedStr(names) ==
    PairItems(SortedPairs([i \in 1..Len(names) |->
        [sortkey |-> names[i], item |-> names[i]]]))

get_available_colorspaces_names(registry, disabled) ==
    LET dataset == colorspaces_dataset(registry, disabled)
    IN IF dataset.status # "ok" THEN [status |-> dataset.status, value |-> <<>>]
       ELSE [status |-> "ok",
             value |-> SortedStr(DictKeys(dataset.value))]

\* the loop of get_available_colorspaces_names_aliases: buffer_dict is a dict from
\* hash to the list of names
RECURSIVE GroupByHash(_, _)
GroupByHash(buffer_dict, items) ==
    IF items = <<>> THEN buffer_dict
    ELSE LET identifier == ColorspaceHash(Head(items).value)
             colorspace_name == Head(items).key
         IN GroupByHash(
                IF DictHas(buffer_dict, identifier)
                THEN DictSet(buffer_dict, identifier,
                             Append(DictGet(buffer_dict, identifier), colorspace_name))
                ELSE DictSet(buffer_dict, identifier, <<colorspace_name>>),
                Tail(items))

get_available_colorspaces_names_aliases(registry, disabled) ==
    LET dataset == colorspaces_dataset(registry, disabled)
    IN IF dataset.status # "ok" THEN [status |-> dataset.status, value |-> <<>>]
       ELSE [status |-> "ok",
             value |-> DictValues(GroupByHash(<<>>, dataset.value))]

\* get_colorspace(name) with force_linear left False; name is <<>> when it is
\* None or the empty str
get_colorspace(registry, disabled, name) ==
    IF name = <<>> THEN [status |-> "ok", value |-> NoneObject]
    ELSE LET dataset == colorspaces_dataset(registry, disabled)
         IN IF dataset.status # "ok"
            THEN [status |-> dataset.status, value |-> NoneObject]
            ELSE IF DictHas(dataset.value, name)
                 THEN [status |-> "ok", value |-> DictGet(dataset.value, name)]
                 ELSE [status |-> "ok", value |-> NoneObject]

\* the loop "for colorspace_name in names" of disable_colorspaces: value is the
\* list _COLORSPACES_KEYS_DISABLED as the loop leaves it, extended in place
RECURSIVE DisableNames(_, _, _)
DisableNames(registry, disabled, names) ==
    IF names = <<>> THEN [status |-> "ok", value |-> disabled]
    ELSE IF ~DictHas(registry, Head(names))
         THEN [status |-> "KeyError", value |-> disabled]
         ELSE LET colorspace == DictGet(registry, Head(names))
                  aliases == get_colorspace_aliases(registry, disabled, colorspace)
              IN IF aliases.status # "ok"
                 THEN [status |-> aliases.status, value |-> disabled]
                 ELSE DisableNames(registry, disabled \o aliases.value, Tail(names))

\* a snapshot that forgets what the enclosing scopes disabled
PreviousDisabled_empty(disabled) == <<>>

\* a finally clause that restores nothing
RestoreDisabled_kept(previous_disabled, disabled) == disabled

\* a finally clause that enables every key
RestoreDisabled_empty(previous_disabled, disabled) == <<>>

\* previous_disabled = _COLORSPACES_KEYS_DISABLED.copy()
PreviousDisabled(disabled) == disabled

\* the finally clause: _COLORSPACES_KEYS_DISABLED = previous_disabled
RestoreDisabled(previous_disabled, disabled) == previous_disabled

(***************************************************************************)
(* The registry as a state machine.                                        *)
(*   COLORSPACES                 _COLORSPACES of build.py                  *)
(*   COLORSPACES_KEYS_DISABLED   _COLORSPACES_KEYS_DISABLED of browse.py   *)
(*   scopes    the disable_colorspaces context managers suspended at their *)
(*             yield, innermost last, each with its names and its local    *)
(*             previous_disabled                                           *)
(*   exc       an exception is propagating                                 *)
(*   entered   history: for every scope of scopes, what held before it was *)
(*             entered and what it hid                                     *)
(*   last      history: the last entry or exit                             *)
(***************************************************************************)
VARIABLES COLORSPACES, COLORSPACES_KEYS_DISABLED, scopes, exc, entered, last

registryVars == <<COLORSPACES, COLORSPACES_KEYS_DISABLED, scopes, exc, entered, last>>

\* the deepest nesting of scopes the model enters
MaxDepth == 3

Passthrough_name == <<"P","a","s","s","t","h","r","o","u","g","h">>
ACEScg_name == <<"A","C","E","S","c","g">>
Unknown_name == <<"n","o","t","-","a","-","c","o","l","o","r","s","p","a","c","e">>

\* the lists of names the model gives to disable_colorspaces: the two lists of
\* test_disable_colorspaces; an alias, the canonical name and the alias again
\* of one colorspace; an alias followed by a name the registry does not hold
NameLists ==
    { <<Passthrough_name, ACEScg_name>>,
      << <<"s","R","G","B">> >>,
      << <<"a","p","1">>, ACEScg_name, <<"a","p","1">> >>,
      << <<"r","a","w">>, Unknown_name >> }

RegistryKeys(registry) == SeqToSet(DictKeys(registry))

\* what get_colorspace returns for every key of the registry: the identity of
\* the object, 0 for None, -1 when the call raises
Lookup(registry, disabled) ==
    [k \in RegistryKeys(registry) |->
        LET r == get_colorspace(registry, disabled, k)
        IN IF r.status # "ok" THEN 0 - 1
           ELSE IF r.value = NoneObject THEN 0 ELSE r.value.id]

NoHistory == [before |-> <<>>, lookup |-> <<>>, after |-> <<>>, names |-> <<>>]

RegistryInit ==
    /\ \E derived \in BOOLEAN : COLORSPACES = load_colorspaces(<<>>, 0, derived)
    /\ COLORSPACES_KEYS_DISABLED = <<>>
    /\ scopes = <<>>
    /\ exc = FALSE
    /\ entered = <<>>
    /\ last = [op |-> "none", kind |-> "none", history |-> NoHistory]

\* with disable_colorspaces(names): up to the yield, or to the KeyError
Enter(names) ==
    /\ ~exc
    /\ Len(scopes) < MaxDepth
    /\ LET previous_disabled == PreviousDisabled(COLORSPACES_KEYS_DISABLED)
           loop == DisableNames(COLORSPACES, COLORSPACES_KEYS_DISABLED, names)
           history == [before |-> COLORSPACES_KEYS_DISABLED,
                       lookup |-> Lookup(COLORSPACES, COLORSPACES_KEYS_DISABLED),
                       after |-> loop.value,
                       names |-> names]
       IN /\ COLORSPACES_KEYS_DISABLED' = loop.value
          /\ IF loop.status = "ok"
             THEN /\ scopes' = Append(scopes, [names |-> names,
                                               previous_disabled |-> previous_disabled])
                  /\ entered' = Append(entered, history)
                  /\ exc' = FALSE
                  /\ last' = [op |-> "enter", kind |-> "none", history |-> history]
             ELSE /\ scopes' = scopes
                  /\ entered' = entered
                  /\ exc' = TRUE
                  /\ last' = [op |-> "enter_failed", kind |-> loop.status,
                              history |-> history]
    /\ UNCHANGED COLORSPACES

\* the finally clause of the innermost scope
Unwind(kind) ==
    /\ scopes # <<>>
    /\ COLORSPACES_KEYS_DISABLED' =
           RestoreDisabled(scopes[Len(scopes)].previous_disabled,
                           COLORSPACES_KEYS_DISABLED)
    /\ scopes' = SubSeq(scopes, 1, Len(scopes) - 1)
    /\ entered' = SubSeq(entered, 1, Len(entered) - 1)
    /\ last' = [op |-> "exit", kind |-> kind, history |-> entered[Len(entered)]]
    /\ UNCHANGED COLORSPACES

\* the body of the innermost scope returns
ExitReturn ==
    /\ ~exc
    /\ Unwind("return")
    /\ exc' = FALSE

\* the body of the innermost scope raises, or lets an exception through
ExitRaise ==
    /\ Unwind("raise")
    /\ exc' = TRUE

\* the caller catches the exception
Catch ==
    /\ exc
    /\ exc' = FALSE
    /\ UNCHANGED <<COLORSPACES, COLORSPACES_KEYS_DISABLED, scopes, entered, last>>

(***************************************************************************)
(* cocoon/colorspaces/transformations.py.  A pixel array is [vals, store]: *)
(* its values and the identity of its storage.  A call returns             *)
(* [status, value, stages]: stages lists what was applied to the values,   *)
(* in order ("identity" is the product with numpy.identity(3)).  Under     *)
(* colour's default domain-range scale to_domain_1 is a copy and           *)
(* from_range_1 returns its argument.                                      *)
(***************************************************************************)
NoValues == [vals |-> <<>>, store |-> 0]

\* a new array, allocated after the array from
NewArray(vals, from) == [vals |-> vals, store |-> from.store + 1]

\* array.copy()
ArrayCopy(array) == NewArray(array.vals, array)

\* the callables of the external library and of the tests, on a vector
ApplyCallable(callable, vals) ==
    CASE callable = "gamma_decoding" -> [i \in 1..Len(vals) |-> vals[i] * vals[i]]
      [] callable = "gamma_encoding" -> [i \in 1..Len(vals) |-> vals[i] + 1]
      [] callable = "eotf_sRGB" -> [i \in 1..Len(vals) |-> vals[i] * vals[i] + 1]
      [] callable = "eotf_inverse_sRGB" -> [i \in 1..Len(vals) |-> vals[i] + 2]

\* colour.adaptation.matrix_chromatic_adaptation_VonKries on the two whitepoints:
\* the external algorithm, kept as a function of its three arguments that is the
\* identity for equal whitepoints and whose inverse is the matrix of the
\* whitepoints exchanged
TransformFactor(transform_name) ==
    CASE transform_name = "Bradford" -> 1
      [] transform_name = "CAT02" -> 2

\* an adaptation that goes one way whatever the order of the whitepoints
matrix_chromatic_adaptation_transform_oneway(source_whitepoint, target_whitepoint, transform_name) ==
    LET k == TransformFactor(transform_name)
        s == source_whitepoint.coordinates
        t == target_whitepoint.coordinates
    IN << <<1, k * (t[1] - s[1]) * (t[1] - s[1]), k * (t[2] - s[2]) * (t[2] - s[2])>>,
          <<0, 1, 0>>,
          <<0, 0, 1>> >>

matrix_chromatic_adaptation_transform(source_whitepoint, target_whitepoint, transform_name) ==
    LET k == TransformFactor(transform_name)
        s == source_whitepoint.coordinates
        t == target_whitepoint.coordinates
    IN << <<1, k * (t[1] - s[1]), k * (t[2] - s[2])>>,
          <<0, 1, 0>>,
          <<0, 0, 1>> >>

MatrixResult(status, value, stages) ==
    [status |-> status, value |-> value, stages |-> stages]

\* a variant that validates the whitepoints before anything else
matrix_colorspace_to_colorspace_validating(source_colorspace, target_colorspace, chromatic_adaptation_transform) ==
    IF \/ (chromatic_adaptation_transform # NoTransform
           /\ source_colorspace.whitepoint = NoneObject)
       \/ target_colorspace.whitepoint = NoneObject
    THEN MatrixResult("ValueError", NoArray, <<>>)
    ELSE IF \/ is_no_op(source_colorspace)
            \/ is_no_op(target_colorspace)
            \/ source_colorspace.gamut = NoneObject
            \/ target_colorspace.gamut = NoneObject
    THEN MatrixResult("ok", Identity3, <<"identity">>)
    ELSE MatrixResult("ok",
            matrix_dot(target_colorspace.matrix_from_XYZ,
                       source_colorspace.matrix_to_XYZ),
            <<"matrix_to_XYZ", "matrix_from_XYZ">>)

matrix_colorspace_to_colorspace(source_colorspace, target_colorspace, chromatic_adaptation_transform) ==
    IF \/ is_no_op(source_colorspace)
       \/ is_no_op(target_colorspace)
       \/ source_colorspace.gamut = NoneObject
       \/ target_colorspace.gamut = NoneObject
    THEN MatrixResult("ok", Identity3, <<"identity">>)
    ELSE IF \/ (chromatic_adaptation_transform # NoTransform
                /\ source_colorspace.whitepoint = NoneObject)
            \/ target_colorspace.whitepoint = NoneObject
    THEN MatrixResult("ValueError", NoArray, <<>>)
    ELSE IF \/ source_colorspace.matrix_to_XYZ = NoArray
            \/ target_colorspace.matrix_from_XYZ = NoArray
    THEN \* a product with None
         MatrixResult("MatrixProductError", NoArray, <<>>)
    ELSE IF chromatic_adaptation_transform # NoTransform
    THEN MatrixResult("ok",
            matrix_dot(target_colorspace.matrix_from_XYZ,
                matrix_dot(
                    matrix_chromatic_adaptation_transform(
                        source_colorspace.whitepoint,
                        target_colorspace.whitepoint,
                        chromatic_adaptation_transform),
                    source_colorspace.matrix_to_XYZ)),
            <<"matrix_to_XYZ", "adaptation", "matrix_from_XYZ">>)
    ELSE MatrixResult("ok",
            matrix_dot(target_colorspace.matrix_from_XYZ,
                       source_colorspace.matrix_to_XYZ),
            <<"matrix_to_XYZ", "matrix_from_XYZ">>)

\* a pipeline that never decodes
has_decoding_never(colorspace) == FALSE

has_decoding(colorspace) ==
    /\ colorspace.transfer_functions # NoneObject
    /\ colorspace.transfer_functions.decoding # NoCallable

has_encoding(colorspace) ==
    /\ colorspace.transfer_functions # NoneObject
    /\ colorspace.transfer_functions.encoding # NoCallable

ArrayResult(status, value, stages) ==
    [status |-> status, value |-> value, stages |-> stages]

colorspace_to_XYZ(array, source_colorspace, whitepoint_XYZ, chromatic_adaptation_transform) ==
    IF is_no_op(source_colorspace) \/ source_colorspace.gamut = NoneObject
    THEN ArrayResult("ok", ArrayCopy(array), <<>>)
    ELSE
    LET RGB0 == ArrayCopy(array)
        decoded == has_decoding(source_colorspace)
        RGB == IF decoded
               THEN NewArray(ApplyCallable(
                        source_colorspace.transfer_functions.decoding, RGB0.vals), RGB0)
               ELSE RGB0
        stages1 == IF decoded THEN <<"decoding">> ELSE <<>>
    IN IF source_colorspace.matrix_to_XYZ = NoArray
       THEN ArrayResult("MatrixProductError", NoValues, stages1)
       ELSE
       LET XYZ == NewArray(vector_dot(source_colorspace.matrix_to_XYZ, RGB.vals), RGB)
           stages2 == Append(stages1, "matrix_to_XYZ")
       IN IF \/ (chromatic_adaptation_transform # NoTransform
                 /\ source_colorspace.whitepoint = NoneObject)
             \/ whitepoint_XYZ = NoneObject
          THEN ArrayResult("ValueError", NoValues, stages2)
          ELSE IF chromatic_adaptation_transform # NoTransform
          THEN ArrayResult("ok",
                  NewArray(vector_dot(
                      matrix_chromatic_adaptation_transform(
                          source_colorspace.whitepoint, whitepoint_XYZ,
                          chromatic_adaptation_transform),
                      XYZ.vals), XYZ),
                  Append(stages2, "adaptation"))
          ELSE ArrayResult("ok", XYZ, stages2)

XYZ_to_colorspace(array, target_colorspace, whitepoint_XYZ, chromatic_adaptation_transform) ==
    IF is_no_op(target_colorspace) \/ target_colorspace.gamut = NoneObject
    THEN ArrayResult("ok", ArrayCopy(array), <<>>)
    ELSE IF \/ (chromatic_adaptation_transform # NoTransform
                /\ target_colorspace.whitepoint = NoneObject)
            \/ whitepoint_XYZ = NoneObject
    THEN ArrayResult("ValueError", NoValues, <<>>)
    ELSE
    LET adapted == chromatic_adaptation_transform # NoTransform
        XYZ == IF adapted
               THEN NewArray(vector_dot(
                        matrix_chromatic_adaptation_transform(
                            whitepoint_XYZ, target_colorspace.whitepoint,
                            chromatic_adaptation_transform),
                        array.vals), array)
               ELSE array
        stages1 == IF adapted THEN <<"adaptation">> ELSE <<>>
    IN IF target_colorspace.matrix_from_XYZ = NoArray
       THEN ArrayResult("MatrixProductError", NoValues, stages1)
       ELSE
       LET RGB == NewArray(vector_dot(target_colorspace.matrix_from_XYZ, XYZ.vals), XYZ)
           stages2 == Append(stages1, "matrix_from_XYZ")
       IN IF has_encoding(target_colorspace)
          THEN ArrayResult("ok",
                  NewArray(ApplyCallable(
                      target_colorspace.transfer_functions.encoding, RGB.vals), RGB),
                  Append(stages2, "encoding"))
          ELSE ArrayResult("ok", RGB, stages2)

colorspace_to_colorspace(array, source_colorspace, target_colorspace, chromatic_adaptation_transform) ==
    IF is_no_op(source_colorspace) \/ is_no_op(target_colorspace)
    THEN ArrayResult("ok", ArrayCopy(array), <<>>)
    ELSE IF ColorspaceEq(source_colorspace, target_colorspace)
    THEN ArrayResult("ok", ArrayCopy(array), <<>>)
    ELSE
    LET RGB0 == ArrayCopy(array)
        decoded == has_decoding(source_colorspace)
        RGB1 == IF decoded
                THEN NewArray(ApplyCallable(
                         source_colorspace.transfer_functions.decoding, RGB0.vals), RGB0)
                ELSE RGB0
        stages1 == IF decoded THEN <<"decoding">> ELSE <<>>
        matrix == matrix_colorspace_to_colorspace(
                      source_colorspace, target_colorspace,
                      chromatic_adaptation_transform)
    IN IF matrix.status # "ok"
       THEN ArrayResult(matrix.status, NoValues, stages1)
       ELSE
       LET RGB2 == NewArray(vector_dot(matrix.value, RGB1.vals), RGB1)
           stages2 == stages1 \o matrix.stages
       IN IF has_encoding(target_colorspace)
          THEN ArrayResult("ok",
                  NewArray(ApplyCallable(
                      target_colorspace.transfer_functions.encoding, RGB2.vals), RGB2),
                  Append(stages2, "encoding"))
          ELSE ArrayResult("ok", RGB2, stages2)

(***************************************************************************)
(* The transformation engine as a state machine: the arguments of a call   *)
(* are drawn from bounded sets, and each function is an action that        *)
(* records what it returned.                                               *)
(***************************************************************************)
VARIABLES arg_array, arg_source, arg_target, arg_transform, arg_whitepoint, called, returned

transformVars == <<arg_array, arg_source, arg_target, arg_transform, arg_whitepoint, called, returned>>

vars == <<registryVars, transformVars>>

TestName == <<"T","e","s","t">>

\* the whitepoints of the calls: their coordinates differ by more than repr drops
TestWhitepoints ==
    { Whitepoint(<<"D","6","5">>, <<6, 6>>), Whitepoint(<<"D","6","0">>, <<4, 6>>) }

TestGamut == ColorspaceGamut(<<"g","a","m","u","t"," ","1">>, << <<12, 6>>, <<6, 12>>, <<2, 0>> >>)

TestTransferFunctions ==
    TransferFunctions(<<"C","C","T","F"," ","t","e","s","t">>,
                      "gamma_encoding", "gamma_decoding")

TestMatrix == << <<1, 2, 4>>, <<0, 1, 2>>, <<0, 0, 1>> >>

\* [to, from] pairs of matrices: absent, the identity, a matrix and its inverse
TestMatrixPairs ==
    { [to |-> NoArray, from |-> NoArray],
      [to |-> Identity3, from |-> Identity3],
      [to |-> TestMatrix, from |-> linalg_inv(TestMatrix)] }

TestColorspace(name, gamut, whitepoint, transfer_functions, to, from, derived) ==
    RgbColorspace(0, name, gamut, whitepoint, transfer_functions, <<"common">>,
                  "test", to, from, NoneObject, derived, derived)

\* every combination of present and absent components, and beside them: another
\* name; a to-XYZ matrix that differs from TestMatrix by less than repr prints;
\* derived matrices; decoding without encoding; a to-XYZ matrix alone
TestColorspaces ==
    { TestColorspace(TestName, g, w, tf, m.to, m.from, FALSE) :
        g \in {NoneObject, TestGamut},
        w \in {NoneObject} \cup TestWhitepoints,
        tf \in {NoneObject, TRANSFER_FUNCTIONS_LINEAR, TestTransferFunctions},
        m \in TestMatrixPairs }
    \cup
    { TestColorspace(<<"O","t","h","e","r">>, TestGamut,
          Whitepoint(<<"D","6","5">>, <<6, 6>>), TestTransferFunctions,
          TestMatrix, linalg_inv(TestMatrix), FALSE),
      TestColorspace(TestName, TestGamut,
          Whitepoint(<<"D","6","5">>, <<6, 6>>), TestTransferFunctions,
          << <<1, 2, 5>>, <<0, 1, 2>>, <<0, 0, 1>> >>, linalg_inv(TestMatrix), FALSE),
      TestColorspace(TestName, TestGamut,
          Whitepoint(<<"D","6","5">>, <<6, 6>>), TestTransferFunctions,
          TestMatrix, linalg_inv(TestMatrix), TRUE),
      TestColorspace(TestName, TestGamut,
          Whitepoint(<<"D","6","5">>, <<6, 6>>),
          TransferFunctions(<<"C","C","T","F"," ","d","e","c">>,
                            NoCallable, "gamma_decoding"),
          TestMatrix, linalg_inv(TestMatrix), FALSE),
      TestColorspace(TestName, TestGamut,
          Whitepoint(<<"D","6","5">>, <<6, 6>>), TestTransferFunctions,
          TestMatrix, NoArray, FALSE) }

TestArrays ==
    { [vals |-> <<3, 12, 0 - 2>>, store |-> 1], [vals |-> <<0, 5, 2>>, store |-> 1] }

TestTransforms == {NoTransform, "Bradford", "CAT02"}

NoResult == [status |-> "none", value |-> NoValues, stages |-> <<>>]

TransformInit ==
    /\ arg_array \in TestArrays
    /\ arg_source \in TestColorspaces
    /\ arg_target \in TestColorspaces
    /\ arg_transform \in TestTransforms
    /\ arg_whitepoint = NoneObject
    /\ called = "none"
    /\ returned = NoResult

Call_matrix_colorspace_to_colorspace ==
    /\ called = "none"
    /\ called' = "matrix_colorspace_to_colorspace"
    /\ returned' = matrix_colorspace_to_colorspace(arg_source, arg_target, arg_transform)
    /\ UNCHANGED <<arg_array, arg_source, arg_target, arg_transform, arg_whitepoint>>

Call_colorspace_to_XYZ ==
    /\ called = "none"
    /\ \E whitepoint_XYZ \in {NoneObject} \cup TestWhitepoints :
        /\ arg_whitepoint' = whitepoint_XYZ
        /\ returned' = colorspace_to_XYZ(arg_array, arg_source, whitepoint_XYZ,
                                         arg_transform)
    /\ called' = "colorspace_to_XYZ"
    /\ UNCHANGED <<arg_array, arg_source, arg_target, arg_transform>>

Call_XYZ_to_colorspace ==
    /\ called = "none"
    /\ \E whitepoint_XYZ \in {NoneObject} \cup TestWhitepoints :
        /\ arg_whitepoint' = whitepoint_XYZ
        /\ returned' = XYZ_to_colorspace(arg_array, arg_target, whitepoint_XYZ,
                                         arg_transform)
    /\ called' = "XYZ_to_colorspace"
    /\ UNCHANGED <<arg_array, arg_source, arg_target, arg_transform>>

Call_colorspace_to_colorspace ==
    /\ called = "none"
    /\ called' = "colorspace_to_colorspace"
    /\ returned' = colorspace_to_colorspace(arg_array, arg_source, arg_target,
                                            arg_transform)
    /\ UNCHANGED <<arg_array, arg_source, arg_target, arg_transform, arg_whitepoint>>

\* XYZ_to_colorspace(colorspace_to_XYZ(array, source, target.whitepoint,
\* transform), target): the second call is made when the first returns
Call_through_XYZ ==
    /\ called = "none"
    /\ called' = "through_XYZ"
    /\ arg_whitepoint' = arg_target.whitepoint
    /\ LET XYZ == colorspace_to_XYZ(arg_array, arg_source, arg_target.whitepoint,
                                    arg_transform)
       IN returned' =
            IF XYZ.status # "ok" THEN XYZ
            ELSE LET RGB == XYZ_to_colorspace(XYZ.value, arg_target, NoneObject,
                                              NoTransform)
                 IN ArrayResult(RGB.status, RGB.value, XYZ.stages \o RGB.stages)
    /\ UNCHANGED <<arg_array, arg_source, arg_target, arg_transform>>

(***************************************************************************)
(* Specifications.  Spec is the registry under nested scopes; SpecTransform *)
(* is the transformation engine.                                           *)
(***************************************************************************)
Init ==
    /\ RegistryInit
    /\ arg_array = NoValues
    /\ arg_source = NoneObject
    /\ arg_target = NoneObject
    /\ arg_transform = NoTransform
    /\ arg_whitepoint = NoneObject
    /\ called = "none"
    /\ returned = NoResult

Next ==
    \/ \E names \in NameLists : Enter(names) /\ UNCHANGED transformVars
    \/ ExitReturn /\ UNCHANGED transformVars
    \/ ExitRaise /\ UNCHANGED transformVars
    \/ Catch /\ UNCHANGED transformVars

Spec == Init /\ [][Next]_vars

InitTransform ==
    /\ TransformInit
    /\ COLORSPACES = <<>>
    /\ COLORSPACES_KEYS_DISABLED = <<>>
    /\ scopes = <<>>
    /\ exc = FALSE
    /\ entered = <<>>
    /\ last = [op |-> "none", kind |-> "none", history |-> NoHistory]

NextTransform ==
    \/ Call_matrix_colorspace_to_colorspace /\ UNCHANGED registryVars
    \/ Call_colorspace_to_XYZ /\ UNCHANGED registryVars
    \/ Call_XYZ_to_colorspace /\ UNCHANGED registryVars
    \/ Call_colorspace_to_colorspace /\ UNCHANGED registryVars
    \/ Call_through_XYZ /\ UNCHANGED registryVars

SpecTransform == InitTransform /\ [][NextTransform]_vars

(***************************************************************************)
(* Properties of the registry, checked under Spec.                         *)
(***************************************************************************)
\* the keys of the registry that resolve to the colorspace registered under name
KeysOf(name) ==
    { k \in RegistryKeys(COLORSPACES) :
        DictGet(COLORSPACES, k).id = DictGet(COLORSPACES, name).id }

\* the names of all the scopes that are active
ActiveNames == UNION { SeqToSet(scopes[i].names) : i \in 1..Len(scopes) }

DisabledSet == SeqToSet(COLORSPACES_KEYS_DISABLED)

\* C1: while a disable_colorspaces(names) scope is active, for every name n of
\* names and every registry key k that resolves to the colorspace registered
\* under n, get_colorspace(k) returns None, k is missing from
\* get_available_colorspaces_names() and from every tuple of
\* get_available_colorspaces_names_aliases(), and the colorspace is missing
\* from get_available_colorspaces().
C1_DisabledAreInvisible ==
    LET names == get_available_colorspaces_names(COLORSPACES,
                                                 COLORSPACES_KEYS_DISABLED)
        names_aliases ==
            get_available_colorspaces_names_aliases(COLORSPACES,
                                                    COLORSPACES_KEYS_DISABLED)
        colorspaces == get_available_colorspaces(COLORSPACES,
                                                 COLORSPACES_KEYS_DISABLED)
    IN /\ names.status = "ok"
       /\ names_aliases.status = "ok"
       /\ colorspaces.status = "ok"
       /\ \A n \in ActiveNames :
            /\ \A i \in 1..Len(colorspaces.value) :
                 /\ colorspaces.value[i].id # DictGet(COLORSPACES, n).id
                 /\ ~ColorspaceEq(colorspaces.value[i], DictGet(COLORSPACES, n))
            /\ \A k \in KeysOf(n) :
                 LET found == get_colorspace(COLORSPACES,
                                             COLORSPACES_KEYS_DISABLED, k)
                 IN /\ found.status = "ok" /\ found.value = NoneObject
                    /\ k \notin SeqToSet(names.value)
                    /\ \A i \in 1..Len(names_aliases.value) :
                         k \notin SeqToSet(names_aliases.value[i])

\* two scopes are active, the inner one entered with a name, a slug and aliases
\* to hide, and the listings still show other colorspaces
C1_Witness ==
    /\ Len(scopes) = 2
    /\ last.op = "enter"
    /\ Passthrough_name \in SeqToSet(last.history.names)
    /\ <<"r","a","w">> \in DisabledSet
    /\ <<"r","a","w">> \notin SeqToSet(last.history.before)
    /\ get_available_colorspaces_names(COLORSPACES,
                                       COLORSPACES_KEYS_DISABLED).value # <<>>

\* C2: when a disable_colorspaces scope exits, by return or by raise, the
\* disabled set is the one that held just before the scope was entered, and
\* get_colorspace on every key the scope had hidden returns the object it
\* returned before the entry, by identity.
C2_ExitRestores ==
    last.op = "exit" =>
        LET lookup == Lookup(COLORSPACES, COLORSPACES_KEYS_DISABLED)
        IN /\ DisabledSet = SeqToSet(last.history.before)
           /\ \A k \in SeqToSet(last.history.after) :
                lookup[k] = last.history.lookup[k]
           /\ \A k \in SeqToSet(last.history.after) \ SeqToSet(last.history.before) :
                lookup[k] > 0

\* a scope that had hidden keys of its own has exited on an exception
C2_Witness ==
    /\ last.op = "exit"
    /\ last.kind = "raise"
    /\ SeqToSet(last.history.after) # SeqToSet(last.history.before)
    /\ \E k \in SeqToSet(last.history.after) :
         Lookup(COLORSPACES, COLORSPACES_KEYS_DISABLED)[k] > 0

\* C3: scopes nest cumulatively.  Inside nested scopes the keys of every active
\* scope are hidden; every scope was entered on top of what the enclosing one
\* had disabled; after a scope exits, the disabled set is the one of the
\* enclosing scope as it was before the entry: the keys the exited scope added
\* are visible, the keys of the scopes still active stay hidden.  At any depth,
\* and also when the inner scope names a colorspace that is already disabled.
C3_ScopesNest ==
    LET lookup == Lookup(COLORSPACES, COLORSPACES_KEYS_DISABLED) IN
    /\ \A i \in 1..Len(entered) :
         /\ SeqToSet(entered[i].before) \subseteq SeqToSet(entered[i].after)
         /\ SeqToSet(entered[i].after) \subseteq DisabledSet
         /\ \A n \in SeqToSet(entered[i].names) :
              KeysOf(n) \subseteq SeqToSet(entered[i].after)
         /\ i > 1 => SeqToSet(entered[i - 1].after) \subseteq SeqToSet(entered[i].before)
    /\ \A n \in ActiveNames : \A k \in KeysOf(n) :
         lookup[k] = 0
    /\ last.op = "exit" =>
         /\ DisabledSet = SeqToSet(last.history.before)
         /\ \A k \in SeqToSet(last.history.after) \ SeqToSet(last.history.before) :
              lookup[k] > 0

\* the innermost of three scopes has exited; it had named a colorspace that was
\* already disabled, and one that was not and is visible again
C3_Witness ==
    /\ last.op = "exit"
    /\ Len(scopes) = 2
    /\ \E n \in SeqToSet(last.history.names) : n \in SeqToSet(last.history.before)
    /\ \E k \in SeqToSet(last.history.after) :
         /\ k \notin SeqToSet(last.history.before)
         /\ Lookup(COLORSPACES, COLORSPACES_KEYS_DISABLED)[k] > 0
    /\ \E n \in ActiveNames :
         Lookup(COLORSPACES, COLORSPACES_KEYS_DISABLED)[n] = 0

\* what get_colorspace returns for a key while nothing is disabled
Registered(key) == get_colorspace(COLORSPACES, <<>>, key).value

\* C10: after the registry is initialised, get_colorspace on the canonical
\* name, on the simplified name and on every explicit alias of a registered
\* colorspace returns one and the same object: no key of a colorspace is
\* overwritten by a name, a slug or an alias of a colorspace registered later.
C10_AliasesShareObject ==
    COLORSPACES_KEYS_DISABLED = <<>> =>
        /\ \A i \in 1..Len(COLORSPACES) :
             LET colorspace == COLORSPACES[i].value
             IN /\ Registered(colorspace.name) # NoneObject
                /\ Registered(colorspace.name).id = colorspace.id
                /\ Registered(name_simplified(colorspace)) # NoneObject
                /\ Registered(name_simplified(colorspace)).id = colorspace.id
        /\ \A i \in 1..Len(colour_colorspace_config) :
             LET name == patch_colour_colorspace(
                             colour_dataset(colour_colorspace_config[i].attribute),
                             FALSE).name
             IN /\ Registered(name) # NoneObject
                /\ Registered(name).name = name
                /\ \A alias \in SeqToSet(colour_colorspace_config[i].aliases) :
                     /\ Registered(alias) # NoneObject
                     /\ Registered(alias).id = Registered(name).id
                /\ \A j \in 1..Len(colour_colorspace_config) :
                     LET other == patch_colour_colorspace(
                                      colour_dataset(colour_colorspace_config[j].attribute),
                                      FALSE).name
                     IN i # j => Registered(other).id # Registered(name).id
        /\ \A alias \in { <<"r","a","w">>, <<"n","u","l","l">> } :
             /\ Registered(alias) # NoneObject
             /\ Registered(alias).id = Registered(Passthrough_name).id

\* the registry is built, scopes have come and gone, and "srgb" and "sRGB"
\* resolve to the object registered as "sRGB Piecewise"
C10_Witness ==
    /\ COLORSPACES_KEYS_DISABLED = <<>>
    /\ last.op = "exit"
    /\ Registered(<<"s","r","g","b">>) # NoneObject
    /\ Registered(<<"s","r","g","b">>).id = Registered(<<"s","R","G","B">>).id
    /\ Registered(<<"s","r","g","b">>).name
         = <<"s","R","G","B"," ","P","i","e","c","e","w","i","s","e">>

(***************************************************************************)
(* Properties of the transformation engine, checked under SpecTransform.   *)
(***************************************************************************)
\* the values a colorspace's decoding makes of vals, when it has one
Decoded(colorspace, vals) ==
    IF /\ colorspace.transfer_functions # NoneObject
       /\ colorspace.transfer_functions.decoding # NoCallable
    THEN ApplyCallable(colorspace.transfer_functions.decoding, vals)
    ELSE vals

\* the values a colorspace's encoding makes of vals, when it has one
Encoded(colorspace, vals) ==
    IF /\ colorspace.transfer_functions # NoneObject
       /\ colorspace.transfer_functions.encoding # NoCallable
    THEN ApplyCallable(colorspace.transfer_functions.encoding, vals)
    ELSE vals

ValueEqual(a, b) == RgbColorspace_tuplerepr(a) = RgbColorspace_tuplerepr(b)

HasMatrices(colorspace) ==
    /\ colorspace.matrix_to_XYZ # NoArray
    /\ colorspace.matrix_from_XYZ # NoArray

\* C4, as the source has it: for a source colorspace with no gamut, whatever the
\* target and the adaptation, colorspace_to_colorspace returns, in storage of
\* its own, and applies no matrix but the identity.  The values are those of the
\* input when one of the two colorspaces is a no-op or the two are equal;
\* otherwise they are the input decoded by the source's decoding, when it has
\* one, and encoded by the target's encoding, when it has one.
C4_NoGamutSource ==
    (called = "colorspace_to_colorspace" /\ arg_source.gamut = NoneObject) =>
        /\ returned.status = "ok"
        /\ returned.value.store # arg_array.store
        /\ \A i \in 1..Len(returned.stages) :
             returned.stages[i] \in {"decoding", "identity", "encoding"}
        /\ returned.value.vals =
             IF \/ is_no_op(arg_source)
                \/ is_no_op(arg_target)
                \/ ValueEqual(arg_source, arg_target)
             THEN arg_array.vals
             ELSE Encoded(arg_target, Decoded(arg_source, arg_array.vals))

\* a source with transfer functions and no gamut was converted with an adaptation
\* requested, and the values came back decoded
C4_Witness ==
    /\ called = "colorspace_to_colorspace"
    /\ arg_source.gamut = NoneObject
    /\ ~is_no_op(arg_source)
    /\ arg_transform # NoTransform
    /\ returned.status = "ok"
    /\ "decoding" \in SeqToSet(returned.stages)
    /\ returned.value.vals # arg_array.vals

\* C4, as the claim has it: for every source colorspace with no gamut, no-op or
\* not, colorspace_to_colorspace returns the values of the input, with no
\* decoding, matrix or encoding stage applied, in storage of its own.
C4_AsClaimed ==
    (called = "colorspace_to_colorspace" /\ arg_source.gamut = NoneObject) =>
        /\ returned.status = "ok"
        /\ returned.value.vals = arg_array.vals
        /\ returned.value.store # arg_array.store
        /\ SeqToSet(returned.stages) \subseteq {"identity"}

\* C5: on the path of a colorspace that is not a no-op and has a gamut (and its
\* matrices), colorspace_to_XYZ and XYZ_to_colorspace fail with ValueError
\* exactly when an adaptation is requested and the whitepoint of the colorspace
\* or the whitepoint_XYZ argument is absent; when no adaptation is requested
\* they return a converted array and need no whitepoint.
C5_WhitepointNeededForAdaptationOnly ==
    LET colorspace == IF called = "colorspace_to_XYZ" THEN arg_source ELSE arg_target
    IN (/\ called \in {"colorspace_to_XYZ", "XYZ_to_colorspace"}
        /\ ~is_no_op(colorspace)
        /\ colorspace.gamut # NoneObject
        /\ HasMatrices(colorspace)) =>
           /\ returned.status = "ValueError"
                <=> (/\ arg_transform # NoTransform
                     /\ (colorspace.whitepoint = NoneObject
                         \/ arg_whitepoint = NoneObject))
           /\ arg_transform = NoTransform =>
                /\ returned.status = "ok"
                /\ returned.value.vals =
                     IF called = "colorspace_to_XYZ"
                     THEN vector_dot(colorspace.matrix_to_XYZ,
                                     Decoded(colorspace, arg_array.vals))
                     ELSE Encoded(colorspace,
                                  vector_dot(colorspace.matrix_from_XYZ,
                                             arg_array.vals))

\* C6: for a source and a target that both have a gamut (and their matrices)
\* and are not no-ops, matrix_colorspace_to_colorspace fails with ValueError
\* exactly when an adaptation is requested and one of the two has no
\* whitepoint; when none is requested it returns
\* target.matrix_from_XYZ . source.matrix_to_XYZ whatever the whitepoints.
C6_MatrixWhitepointNeededForAdaptationOnly ==
    (/\ called = "matrix_colorspace_to_colorspace"
     /\ ~is_no_op(arg_source) /\ ~is_no_op(arg_target)
     /\ arg_source.gamut # NoneObject /\ arg_target.gamut # NoneObject
     /\ HasMatrices(arg_source) /\ HasMatrices(arg_target)) =>
        /\ returned.status = "ValueError"
             <=> (/\ arg_transform # NoTransform
                  /\ (arg_source.whitepoint = NoneObject
                      \/ arg_target.whitepoint = NoneObject))
        /\ arg_transform = NoTransform =>
             /\ returned.status = "ok"
             /\ returned.value = matrix_dot(arg_target.matrix_from_XYZ,
                                            arg_source.matrix_to_XYZ)

\* C7: matrix_colorspace_to_colorspace returns the 3x3 identity whenever the
\* source or the target is a no-op or lacks a gamut; it never fails then, even
\* when an adaptation is requested and whitepoints or matrices are absent.
C7_IdentityBeforeValidation ==
    (/\ called = "matrix_colorspace_to_colorspace"
     /\ \/ is_no_op(arg_source) \/ is_no_op(arg_target)
        \/ arg_source.gamut = NoneObject \/ arg_target.gamut = NoneObject) =>
        /\ returned.status = "ok"
        /\ returned.value = Identity3

\* the identity came back though an adaptation was requested, the target has no
\* whitepoint and the source has no matrices
C7_Witness ==
    /\ called = "matrix_colorspace_to_colorspace"
    /\ arg_source.gamut = NoneObject
    /\ arg_source.matrix_to_XYZ = NoArray
    /\ arg_target.gamut # NoneObject
    /\ arg_target.whitepoint = NoneObject
    /\ arg_transform # NoTransform
    /\ returned.status = "ok"
    /\ returned.value = Identity3

\* C8: for every colorspace C, every colorspace D equal to C by value and every
\* adaptation, colorspace_to_colorspace(x, C, D, adaptation) returns an array
\* equal to x, in storage that is not the one of x, and applies no transfer
\* function and no matrix.
C8_EqualColorspacesCopy ==
    (called = "colorspace_to_colorspace" /\ ValueEqual(arg_source, arg_target)) =>
        /\ returned.status = "ok"
        /\ returned.value.vals = arg_array.vals
        /\ returned.value.store # arg_array.store
        /\ returned.stages = <<>>

\* two colorspaces that differ as objects and are equal by value, with a gamut,
\* transfer functions and an adaptation requested, gave a copy
C8_Witness ==
    /\ called = "colorspace_to_colorspace"
    /\ arg_source # arg_target
    /\ ValueEqual(arg_source, arg_target)
    /\ ~is_no_op(arg_source)
    /\ arg_source.gamut # NoneObject
    /\ arg_source.transfer_functions # NoneObject
    /\ arg_transform # NoTransform
    /\ returned.status = "ok"
    /\ returned.value.vals = arg_array.vals

\* C9: for a source S and a target T that are not no-ops and not equal,
\* colorspace_to_colorspace(array, S, T, A) and
\* XYZ_to_colorspace(colorspace_to_XYZ(array, S, T.whitepoint, A), T) fail
\* together, and when they return they give the same values after the same
\* stages.
C9_DirectEqualsThroughXYZ ==
    (/\ called = "through_XYZ"
     /\ ~is_no_op(arg_source) /\ ~is_no_op(arg_target)
     /\ ~ValueEqual(arg_source, arg_target)) =>
        LET direct == colorspace_to_colorspace(arg_array, arg_source, arg_target,
                                               arg_transform)
        IN /\ (returned.status = "ok") <=> (direct.status = "ok")
           /\ returned.status = "ok" =>
                /\ returned.value.vals = direct.value.vals
                /\ returned.stages = direct.stages

(***************************************************************************)
(* The methods of RgbColorspace as a state machine: the receiver is drawn  *)
(* from a bounded set of instances, every method is an action that records *)
(* its arguments in arg_target and what it returned in returned.           *)
(***************************************************************************)
\* colorspaces beside TestColorspaces: the same tags in two orders, another
\* description, transfer functions with the encoding alone or with another
\* encoding, and a colorspace built as a linear copy would be
EntityColorspaces ==
    TestColorspaces
    \cup
    { RgbColorspace(0, TestName, TestGamut,
          Whitepoint(<<"D","6","5">>, <<6, 6>>), TestTransferFunctions,
          categories, description, TestMatrix, linalg_inv(TestMatrix),
          NoneObject, FALSE, FALSE) :
        categories \in { <<"aces", "working_space">>, <<"working_space", "aces">> },
        description \in { "test", "another" } }
    \cup
    { TestColorspace(TestName, TestGamut,
          Whitepoint(<<"D","6","5">>, <<6, 6>>),
          TransferFunctions(<<"C","C","T","F"," ","e","n","c">>,
                            "gamma_encoding", NoCallable),
          TestMatrix, linalg_inv(TestMatrix), FALSE),
      TestColorspace(TestName, TestGamut,
          Whitepoint(<<"D","6","5">>, <<6, 6>>),
          TransferFunctions(<<"C","C","T","F"," ","t","e","s","t">>,
                            "eotf_inverse_sRGB", "gamma_decoding"),
          TestMatrix, linalg_inv(TestMatrix), FALSE),
      TestColorspace(TestName \o LinearSuffix, TestGamut,
          Whitepoint(<<"D","6","5">>, <<6, 6>>), TRANSFER_FUNCTIONS_LINEAR,
          TestMatrix, linalg_inv(TestMatrix), FALSE) }

\* the receivers: the object 1 for every colorspace, and the linear copies, the
\* objects 2, of some of them (their _linear_source is the object 1)
EntityReceivers ==
    { InstanceOf([c EXCEPT !.id = 1]) : c \in EntityColorspaces }
    \cup
    { as_linear_copy(InstanceOf([c EXCEPT !.id = 1]), 2) :
        c \in { d \in TestColorspaces :
                  /\ d.gamut # NoneObject
                  /\ d.whitepoint # NoneObject
                  /\ d.matrix_to_XYZ = TestMatrix } }

NoArgument == [value |-> NoneObject, ref |-> 0]

NoArrayArgument == [value |-> NoArray, ref |-> 0]

\* the arguments of the methods are objects of their own
GamutArguments ==
    { NoArgument,
      [value |-> ColorspaceGamut(<<"g","a","m","u","t"," ","2">>,
                                 << <<14, 6>>, <<4, 16>>, <<2, 2>> >>),
       ref |-> Ref(4, 1)] }

WhitepointArguments ==
    { NoArgument,
      [value |-> Whitepoint(<<"D","5","5">>, <<8, 8>>), ref |-> Ref(4, 2)] }

TransferFunctionsArguments ==
    { NoArgument,
      [value |-> TransferFunctions(<<"C","C","T","F"," ","2">>,
                                   "eotf_inverse_sRGB", "eotf_sRGB"),
       ref |-> Ref(4, 3)],
      [value |-> TRANSFER_FUNCTIONS_LINEAR, ref |-> TRANSFER_FUNCTIONS_LINEAR_ref] }

MatrixArguments ==
    { NoArrayArgument,
      [value |-> Identity3, ref |-> Ref(4, 4)],
      [value |-> TestMatrix, ref |-> Ref(4, 5)] }

NameArguments ==
    { NotGiven(<<>>), Given(<<>>), Given(<<"O","t","h","e","r">>) }

DescriptionArguments == { NotGiven(""), Given(""), Given("another") }

CategoriesArguments == { NotGiven(<<>>), Given(<<>>), Given(<<"p3", "common">>) }

NoArguments == [none |-> TRUE]

EntityInit ==
    /\ arg_source \in EntityReceivers
    /\ arg_target = NoArguments
    /\ arg_array = NoValues
    /\ arg_transform = NoTransform
    /\ arg_whitepoint = NoneObject
    /\ called = "none"
    /\ returned = NoResult

EntityFrame == UNCHANGED <<arg_array, arg_source, arg_transform, arg_whitepoint>>

Call_is_no_op ==
    /\ called = "none"
    /\ called' = "is_no_op"
    /\ returned' = is_no_op(arg_source.value)
    /\ arg_target' = arg_target
    /\ EntityFrame

Call_copy ==
    /\ called = "none"
    /\ called' = "copy"
    /\ returned' = copy(arg_source, 5)
    /\ arg_target' = arg_target
    /\ EntityFrame

Call_as_linear_copy ==
    /\ called = "none"
    /\ called' = "as_linear_copy"
    /\ returned' = as_linear_copy(arg_source, 5)
    /\ arg_target' = arg_target
    /\ EntityFrame

\* c.as_linear_copy().as_linear_copy(): arg_target keeps what the first call
\* returned
Call_as_linear_copy_twice ==
    /\ called = "none"
    /\ called' = "as_linear_copy_twice"
    /\ LET first == as_linear_copy(arg_source, 5)
       IN /\ arg_target' = first
          /\ returned' = as_linear_copy(first, 8)
    /\ EntityFrame

Call_with_derived_matrices ==
    /\ called = "none"
    /\ called' = "with_derived_matrices"
    /\ returned' = with_derived_matrices(arg_source, 5)
    /\ arg_target' = arg_target
    /\ EntityFrame

Call_with_gamut ==
    /\ called = "none"
    /\ called' = "with_gamut"
    /\ \E new_gamut \in GamutArguments, to \in MatrixArguments, from \in MatrixArguments :
         /\ arg_target' = [new_gamut |-> new_gamut, matrix_to_XYZ |-> to,
                           matrix_from_XYZ |-> from]
         /\ returned' = with_gamut(arg_source, new_gamut, to, from, 5)
    /\ EntityFrame

Call_with_whitepoint ==
    /\ called = "none"
    /\ called' = "with_whitepoint"
    /\ \E new_whitepoint \in WhitepointArguments, to \in MatrixArguments, from \in MatrixArguments :
         /\ arg_target' = [new_whitepoint |-> new_whitepoint, matrix_to_XYZ |-> to,
                           matrix_from_XYZ |-> from]
         /\ returned' = with_whitepoint(arg_source, new_whitepoint, to, from, 5)
    /\ EntityFrame

Call_with_transfer_functions ==
    /\ called = "none"
    /\ called' = "with_transfer_functions"
    /\ \E new_transfer_functions \in TransferFunctionsArguments :
         /\ arg_target' = [new_transfer_functions |-> new_transfer_functions]
         /\ returned' = with_transfer_functions(arg_source, new_transfer_functions, 5)
    /\ EntityFrame

Call_with_descriptives ==
    /\ called = "none"
    /\ called' = "with_descriptives"
    /\ \E new_name \in NameArguments, new_description \in DescriptionArguments, new_categories \in CategoriesArguments :
         /\ arg_target' = [new_name |-> new_name, new_description |-> new_description,
                           new_categories |-> new_categories]
         /\ returned' = with_descriptives(arg_source, new_name, new_description,
                                          new_categories, 5)
    /\ EntityFrame

\* a == b and hash(a) == hash(b), for the receiver and another instance
Call_eq ==
    /\ called = "none"
    /\ called' = "eq"
    /\ \E other \in EntityReceivers :
         /\ arg_target' = other
         /\ returned' = [eq |-> ColorspaceEq(arg_source.value, other.value),
                         hash_eq |-> ColorspaceHash(arg_source.value)
                                        = ColorspaceHash(other.value)]
    /\ EntityFrame

InitEntity ==
    /\ EntityInit
    /\ COLORSPACES = <<>>
    /\ COLORSPACES_KEYS_DISABLED = <<>>
    /\ scopes = <<>>
    /\ exc = FALSE
    /\ entered = <<>>
    /\ last = [op |-> "none", kind |-> "none", history |-> NoHistory]

\* the arrays the properties of a colour.RGB_Colourspace record return: the
\* arrays the record holds
SourceArrays(id) ==
    [primaries |-> Ref(id, 1), whitepoint |-> Ref(id, 2),
     matrix_RGB_to_XYZ |-> Ref(id, 4), matrix_XYZ_to_RGB |-> Ref(id, 5)]

\* ColorspaceGamut.from_colour_colorspace: the array given as primaries
ColorspaceGamut_from_colour_colorspace_array(source_arrays, new_id) ==
    source_arrays.primaries

\* Whitepoint.from_colour_colorspace: colour_colorspace.whitepoint.copy()
Whitepoint_from_colour_colorspace_array(source_arrays, new_id) == Ref(new_id, 2)

\* RgbColorspace.from_colour_colorspace: the arrays the built value holds
RgbColorspace_from_colour_colorspace_arrays(source_arrays, new_id) ==
    [primaries |-> ColorspaceGamut_from_colour_colorspace_array(source_arrays, new_id),
     coordinates |-> Whitepoint_from_colour_colorspace_array(source_arrays, new_id),
     matrix_to_XYZ |-> Ref(new_id, 4),
     matrix_from_XYZ |-> Ref(new_id, 5)]

\* the records of the external dataset, as they are and with derived matrices
SourceRecords ==
    { patch_colour_colorspace(colour_dataset(colour_colorspace_config[i].attribute),
                              derived) :
        i \in 1..Len(colour_colorspace_config), derived \in BOOLEAN }

\* RgbColorspace.from_colour_colorspace(colour_colorspace, categories)
Call_from_colour_colorspace ==
    /\ called = "none"
    /\ called' = "from_colour_colorspace"
    /\ \E colour_colorspace \in SourceRecords :
         /\ arg_target' = [colour_colorspace |-> colour_colorspace,
                           arrays |-> SourceArrays(3)]
         /\ returned' =
              [value |-> RgbColorspace_from_colour_colorspace(
                             5, colour_colorspace, <<"common">>),
               arrays |-> RgbColorspace_from_colour_colorspace_arrays(
                              SourceArrays(3), 5)]
    /\ EntityFrame

NextEntity ==
    \/ Call_is_no_op /\ UNCHANGED registryVars
    \/ Call_copy /\ UNCHANGED registryVars
    \/ Call_as_linear_copy /\ UNCHANGED registryVars
    \/ Call_as_linear_copy_twice /\ UNCHANGED registryVars
    \/ Call_with_derived_matrices /\ UNCHANGED registryVars
    \/ Call_with_gamut /\ UNCHANGED registryVars
    \/ Call_with_whitepoint /\ UNCHANGED registryVars
    \/ Call_with_transfer_functions /\ UNCHANGED registryVars
    \/ Call_with_descriptives /\ UNCHANGED registryVars
    \/ Call_eq /\ UNCHANGED registryVars
    \/ Call_from_colour_colorspace /\ UNCHANGED registryVars

SpecEntity == InitEntity /\ [][NextEntity]_vars

(***************************************************************************)
(* Properties of RgbColorspace, checked under SpecEntity.                  *)
(***************************************************************************)
\* C13: for every RgbColorspace, is_no_op is true if and only if the gamut is
\* absent, the whitepoint is absent, each of matrix_to_XYZ and matrix_from_XYZ
\* is absent or equal to the 3x3 identity, and the transfer functions are
\* absent or have both encoding and decoding absent.
C13_NoOpIff ==
    called = "is_no_op" =>
        LET c == arg_source.value
        IN returned <=>
            /\ c.gamut = NoneObject
            /\ c.whitepoint = NoneObject
            /\ c.matrix_to_XYZ \in {NoArray, Identity3}
            /\ c.matrix_from_XYZ \in {NoArray, Identity3}
            /\ \/ c.transfer_functions = NoneObject
               \/ /\ c.transfer_functions.encoding = NoCallable
                  /\ c.transfer_functions.decoding = NoCallable

\* a colorspace that holds identity matrices and linear transfer functions, and
\* nothing else, is a no-op
C13_Witness ==
    /\ called = "is_no_op"
    /\ returned = TRUE
    /\ arg_source.value.matrix_to_XYZ = Identity3
    /\ arg_source.value.matrix_from_XYZ = Identity3
    /\ arg_source.value.transfer_functions # NoneObject

\* value equality of two components, None included
GamutEqual(a, b) ==
    IF a = NoneObject \/ b = NoneObject THEN a = b
    ELSE a.name = b.name /\ ReprMatrix(a.primaries) = ReprMatrix(b.primaries)

WhitepointEqual(a, b) ==
    IF a = NoneObject \/ b = NoneObject THEN a = b
    ELSE a.name = b.name /\ ReprVector(a.coordinates) = ReprVector(b.coordinates)

TransferFunctionsEqual(a, b) ==
    IF a = NoneObject \/ b = NoneObject THEN a = b
    ELSE a.name = b.name /\ a.encoding = b.encoding /\ a.decoding = b.decoding

\* the transfer functions are present and not linear in both directions
HasNonLinear(c) ==
    /\ c.transfer_functions # NoneObject
    /\ \/ c.transfer_functions.encoding # NoCallable
       \/ c.transfer_functions.decoding # NoCallable

\* C14: for a colorspace c whose transfer functions are present and not linear
\* in both directions, c.as_linear_copy() is a new instance that holds the
\* object TRANSFER_FUNCTIONS_LINEAR, whose name is c.name followed by
\* " Linear", whose gamut, whitepoint, categories, description and matrices
\* equal those of c, and whose retrieve_linear_source() is the object c.
C14_LinearCopy ==
    (called = "as_linear_copy" /\ HasNonLinear(arg_source.value)) =>
        LET c == arg_source.value
            new == returned.value
        IN /\ new.id # c.id
           /\ new.transfer_functions = TRANSFER_FUNCTIONS_LINEAR
           /\ returned.refs.transfer_functions = TRANSFER_FUNCTIONS_LINEAR_ref
           /\ new.name = c.name \o <<" ","L","i","n","e","a","r">>
           /\ GamutEqual(new.gamut, c.gamut)
           /\ WhitepointEqual(new.whitepoint, c.whitepoint)
           /\ new.categories = c.categories
           /\ new.description = c.description
           /\ new.matrix_to_XYZ = c.matrix_to_XYZ
           /\ new.matrix_from_XYZ = c.matrix_from_XYZ
           /\ is_linear_copy(returned)
           /\ retrieve_linear_source(returned) = c

\* the linear copy of a colorspace that has a decoding and no encoding
C14_Witness ==
    /\ called = "as_linear_copy"
    /\ arg_source.value.transfer_functions # NoneObject
    /\ arg_source.value.transfer_functions.encoding = NoCallable
    /\ arg_source.value.transfer_functions.decoding # NoCallable
    /\ returned.value.name = TestName \o <<" ","L","i","n","e","a","r">>
    /\ returned.value.linear_source.id = arg_source.value.id

\* C15, as the source has it: for every colorspace c, c.as_linear_copy() and
\* c.as_linear_copy().as_linear_copy() are new instances, the second equal to
\* the first.  When the transfer functions of c are present and not linear in
\* both directions, both results have linear transfer functions, the name has
\* one " Linear" suffix, and the second's retrieve_linear_source() equals c
\* and is not the object c.  When they are absent or linear, both results
\* equal c, with the transfer functions of c, and retrieve_linear_source()
\* is what c has: None, or a copy of the linear source of c.
C15_LinearCopyTwice ==
    called = "as_linear_copy_twice" =>
        LET c == arg_source.value
            first == arg_target.value
            second == returned.value
        IN /\ first.id # c.id
           /\ second.id # c.id
           /\ second.id # first.id
           /\ ValueEqual(second, first)
           /\ IF HasNonLinear(c)
              THEN /\ first.transfer_functions.encoding = NoCallable
                   /\ first.transfer_functions.decoding = NoCallable
                   /\ second.transfer_functions.encoding = NoCallable
                   /\ second.transfer_functions.decoding = NoCallable
                   /\ second.name = c.name \o <<" ","L","i","n","e","a","r">>
                   /\ first.linear_source = c
                   /\ second.linear_source # NoneObject
                   /\ ValueEqual(second.linear_source, c)
                   /\ second.linear_source.id # c.id
              ELSE /\ ValueEqual(first, c)
                   /\ second.transfer_functions = c.transfer_functions
                   /\ IF c.linear_source = NoneObject
                      THEN second.linear_source = NoneObject
                      ELSE /\ second.linear_source # NoneObject
                           /\ ValueEqual(second.linear_source, c.linear_source)
                           /\ second.linear_source.id # c.linear_source.id

\* a colorspace that is not linear was made linear twice, and the source of the
\* second copy is a copy of it
C15_Witness ==
    /\ called = "as_linear_copy_twice"
    /\ HasNonLinear(arg_source.value)
    /\ returned.value.linear_source # NoneObject
    /\ returned.value.linear_source.id # arg_source.value.id
    /\ returned.value.id # arg_target.value.id

\* C15, as the claim has it: for every RgbColorspace c, c.as_linear_copy() and
\* c.as_linear_copy().as_linear_copy() have transfer functions that are
\* linear; the second is another instance, equal to the first, and its
\* retrieve_linear_source() equals c and is not the object c.
C15_AsClaimed ==
    called = "as_linear_copy_twice" =>
        LET c == arg_source.value
            first == arg_target.value
            second == returned.value
        IN /\ first.transfer_functions # NoneObject
           /\ first.transfer_functions.encoding = NoCallable
           /\ first.transfer_functions.decoding = NoCallable
           /\ second.transfer_functions # NoneObject
           /\ second.transfer_functions.encoding = NoCallable
           /\ second.transfer_functions.decoding = NoCallable
           /\ second.id # first.id
           /\ ValueEqual(second, first)
           /\ second.linear_source # NoneObject
           /\ ValueEqual(second.linear_source, c)
           /\ second.linear_source.id # c.id

\* the methods that return a new colorspace built from the receiver
CopyingMethods ==
    {"copy", "as_linear_copy", "with_derived_matrices", "with_gamut",
     "with_whitepoint", "with_transfer_functions", "with_descriptives"}

\* the gamut, whitepoint and matrices a call replaces by what it is given or
\* by what it computes; the result carries the others over from the receiver
ReplacedStorage(method) ==
    CASE method = "with_gamut" -> {"gamut", "matrix_to_XYZ", "matrix_from_XYZ"}
      [] method = "with_whitepoint" -> {"whitepoint", "matrix_to_XYZ", "matrix_from_XYZ"}
      [] method = "with_derived_matrices" -> {"matrix_to_XYZ", "matrix_from_XYZ"}
      [] OTHER -> {}

\* C16: copy, as_linear_copy, with_derived_matrices, with_gamut,
\* with_whitepoint, with_transfer_functions and with_descriptives return an
\* instance that is not the receiver, and the gamut, whitepoint and matrices
\* the result carries over from the receiver are other objects than the
\* receiver's (deep copies), while the callables of carried-over transfer
\* functions are the receiver's.
C16_SeparateStorage ==
    called \in CopyingMethods =>
        /\ returned.value.id # arg_source.value.id
        /\ \A f \in {"gamut", "whitepoint", "matrix_to_XYZ", "matrix_from_XYZ"}
                    \ ReplacedStorage(called) :
               returned.refs[f] # 0 => returned.refs[f] # arg_source.refs[f]
        /\ (called \notin {"as_linear_copy", "with_transfer_functions"}
            /\ arg_source.value.transfer_functions # NoneObject) =>
               /\ returned.value.transfer_functions.encoding
                    = arg_source.value.transfer_functions.encoding
               /\ returned.value.transfer_functions.decoding
                    = arg_source.value.transfer_functions.decoding

\* value equality of two linear sources, None included
LinearSourceEqual(a, b) ==
    IF a = NoneObject \/ b = NoneObject THEN a = b ELSE ValueEqual(a, b)

\* the fields of the claim that are equal in two colorspaces, but for some
SameFieldsBut(new, c, changed) ==
    /\ "name" \in changed \/ new.name = c.name
    /\ "description" \in changed \/ new.description = c.description
    /\ "categories" \in changed \/ new.categories = c.categories
    /\ "gamut" \in changed \/ GamutEqual(new.gamut, c.gamut)
    /\ "whitepoint" \in changed \/ WhitepointEqual(new.whitepoint, c.whitepoint)
    /\ "transfer_functions" \in changed
         \/ TransferFunctionsEqual(new.transfer_functions, c.transfer_functions)
    /\ "matrix_to_XYZ" \in changed \/ new.matrix_to_XYZ = c.matrix_to_XYZ
    /\ "matrix_from_XYZ" \in changed \/ new.matrix_from_XYZ = c.matrix_from_XYZ
    /\ LinearSourceEqual(new.linear_source, c.linear_source)

\* C17: with_gamut, with_whitepoint, with_transfer_functions and
\* with_descriptives return an instance in which the named fields hold the
\* given values (for with_gamut and with_whitepoint the two matrices too) and
\* every other field among name, description, categories, gamut, whitepoint,
\* transfer_functions, matrix_to_XYZ, matrix_from_XYZ and the linear source
\* equals the receiver's; with_descriptives with no argument equals the receiver.
C17_ExactFields ==
    LET c == arg_source.value
        new == returned.value
    IN /\ called = "with_gamut" =>
             /\ new.gamut = arg_target.new_gamut.value
             /\ new.matrix_to_XYZ = arg_target.matrix_to_XYZ.value
             /\ new.matrix_from_XYZ = arg_target.matrix_from_XYZ.value
             /\ SameFieldsBut(new, c, {"gamut", "matrix_to_XYZ", "matrix_from_XYZ"})
       /\ called = "with_whitepoint" =>
             /\ new.whitepoint = arg_target.new_whitepoint.value
             /\ new.matrix_to_XYZ = arg_target.matrix_to_XYZ.value
             /\ new.matrix_from_XYZ = arg_target.matrix_from_XYZ.value
             /\ SameFieldsBut(new, c, {"whitepoint", "matrix_to_XYZ", "matrix_from_XYZ"})
       /\ called = "with_transfer_functions" =>
             /\ new.transfer_functions = arg_target.new_transfer_functions.value
             /\ SameFieldsBut(new, c, {"transfer_functions"})
       /\ called = "with_descriptives" =>
             /\ new.name = IF arg_target.new_name.given
                           THEN arg_target.new_name.value ELSE c.name
             /\ new.description = IF arg_target.new_description.given
                                  THEN arg_target.new_description.value
                                  ELSE c.description
             /\ new.categories = IF arg_target.new_categories.given
                                 THEN arg_target.new_categories.value
                                 ELSE c.categories
             /\ SameFieldsBut(new, c, {"name", "description", "categories"})
             /\ (~arg_target.new_name.given /\ ~arg_target.new_description.given
                 /\ ~arg_target.new_categories.given) => ValueEqual(new, c)

C19_EqualityFields ==
    called = "eq" =>
        LET a == arg_source.value
            b == arg_target.value
            same == /\ a.name = b.name
                    /\ a.description = b.description
                    /\ a.categories = b.categories
                    /\ ReprMatrix(a.matrix_to_XYZ) = ReprMatrix(b.matrix_to_XYZ)
                    /\ ReprMatrix(a.matrix_from_XYZ) = ReprMatrix(b.matrix_from_XYZ)
                    /\ GamutEqual(a.gamut, b.gamut)
                    /\ WhitepointEqual(a.whitepoint, b.whitepoint)
                    /\ TransferFunctionsEqual(a.transfer_functions,
                                              b.transfer_functions)
        IN /\ returned.eq <=> same
           /\ returned.eq => returned.hash_eq

\* a linear copy equals a colorspace that has no linear source and is another
\* object
C19_Witness ==
    /\ called = "eq"
    /\ returned.eq
    /\ returned.hash_eq
    /\ arg_source.value.linear_source # NoneObject
    /\ arg_target.value.linear_source = NoneObject
    /\ arg_source.value.id # arg_target.value.id

\* the elements of a tuple
TagsOf(categories) == { categories[i] : i \in 1..Len(categories) }

\* C20: two RgbColorspace instances that hold the same category tags in
\* another order, and are identical in everything else, are equal and have
\* equal hashes.
C20_CategoriesUnordered ==
    (/\ called = "eq"
     /\ TagsOf(arg_source.value.categories) = TagsOf(arg_target.value.categories)
     /\ Len(arg_source.value.categories) = Len(arg_target.value.categories)
     /\ [arg_source.value EXCEPT !.categories = <<>>]
          = [arg_target.value EXCEPT !.categories = <<>>])
        => (returned.eq /\ returned.hash_eq)

(***************************************************************************)
(* get_colorspace as a state machine: SpecBrowse calls it, with and        *)
(* without force_linear, between the entries and exits of scopes.  A call  *)
(* records its arguments in arg_target and its result in returned; an      *)
(* entry or an exit drops the record.                                      *)
(***************************************************************************)

\* the deepest nesting of scopes under which get_colorspace is called
MaxBrowseDepth == 1

\* get_colorspace(name, force_linear); the linear copy takes the identities
\* from new_id on.  The dataset the lookup reads is a copy: the call assigns
\* neither _COLORSPACES nor _COLORSPACES_KEYS_DISABLED.
get_colorspace_force_linear(registry, disabled, name, force_linear, new_id) ==
    LET colorspace == get_colorspace(registry, disabled, name)
    IN IF colorspace.status # "ok" \/ colorspace.value = NoneObject
       THEN colorspace
       ELSE IF force_linear
       THEN [status |-> "ok",
             value |-> as_linear_copy(InstanceOf(colorspace.value), new_id).value]
       ELSE colorspace

\* the names the model gives to get_colorspace: None or "" (both are false for
\* "not name"), a name that is no key, and keys of colorspaces without transfer
\* functions, with linear ones and with others
BrowseNames ==
    { <<>>, Unknown_name, Passthrough_name, <<"r","a","w">>, ACEScg_name,
      <<"a","p","1">>, <<"s","R","G","B">>, <<"s","r","g","b">>,
      <<"D","C","I","-","P","3","-","P">> }

NoCall == [none |-> TRUE]

DropCall ==
    /\ called' = "none"
    /\ returned' = NoResult
    /\ arg_target' = NoCall
    /\ UNCHANGED <<arg_array, arg_source, arg_transform, arg_whitepoint>>

Call_get_colorspace ==
    /\ ~exc
    /\ \E name \in BrowseNames, force_linear \in BOOLEAN :
         /\ arg_target' = [name |-> name, force_linear |-> force_linear]
         /\ returned' =
                get_colorspace_force_linear(COLORSPACES, COLORSPACES_KEYS_DISABLED,
                    name, force_linear, Len(COLORSPACES) + 1)
    /\ called' = "get_colorspace"
    /\ UNCHANGED registryVars
    /\ UNCHANGED <<arg_array, arg_source, arg_transform, arg_whitepoint>>

InitBrowse ==
    /\ RegistryInit
    /\ arg_array = NoValues
    /\ arg_source = NoneObject
    /\ arg_target = NoCall
    /\ arg_transform = NoTransform
    /\ arg_whitepoint = NoneObject
    /\ called = "none"
    /\ returned = NoResult

NextBrowse ==
    \/ \E names \in NameLists :
          Len(scopes) < MaxBrowseDepth /\ Enter(names) /\ DropCall
    \/ ExitReturn /\ DropCall
    \/ ExitRaise /\ DropCall
    \/ Catch /\ DropCall
    \/ Call_get_colorspace

SpecBrowse == InitBrowse /\ [][NextBrowse]_vars

\* what get_colorspace(name) returns in the registry as it is
Resolved(name) == get_colorspace(COLORSPACES, COLORSPACES_KEYS_DISABLED, name)

\* C11: get_colorspace never fails: for an empty or absent name, for a name
\* that is no key of the registry and for a key that is disabled it returns
\* None, with force_linear and without, and the call leaves the registry and
\* the list of disabled keys as they were.
C11_NeverFails ==
    [][called' = "get_colorspace" =>
          /\ returned'.status = "ok"
          /\ (\/ arg_target'.name = <<>>
              \/ arg_target'.name \notin RegistryKeys(COLORSPACES)
              \/ arg_target'.name \in DisabledSet)
                => returned'.value = NoneObject
          /\ COLORSPACES' = COLORSPACES
          /\ COLORSPACES_KEYS_DISABLED' = COLORSPACES_KEYS_DISABLED]_vars

\* an alias that a scope disabled was asked for with force_linear, and None
\* came back
C11_Witness ==
    /\ called = "get_colorspace"
    /\ arg_target.force_linear
    /\ arg_target.name = <<"a","p","1">>
    /\ arg_target.name \in DisabledSet
    /\ scopes # <<>>
    /\ returned.status = "ok"
    /\ returned.value = NoneObject

\* C12, as the source has it: for every name for which get_colorspace(name)
\* returns a colorspace c, get_colorspace(name, force_linear=True) returns
\* c.as_linear_copy(), a new instance.  When the transfer functions of c are
\* present and not linear in both directions, its transfer functions equal
\* TRANSFER_FUNCTIONS_LINEAR, its name is that of c followed by " Linear" and
\* its linear source is c.  When they are absent or linear in both
\* directions it equals c and has the transfer functions of c: None, or
\* linear ones under the name they have in c.
C12_ForceLinear ==
    (called = "get_colorspace" /\ arg_target.force_linear) =>
        LET c == Resolved(arg_target.name).value
            new == returned.value
        IN IF c = NoneObject THEN new = NoneObject
           ELSE /\ new # NoneObject
                /\ new.id # c.id
                /\ IF HasNonLinear(c)
                   THEN /\ TransferFunctionsEqual(new.transfer_functions,
                                                  TRANSFER_FUNCTIONS_LINEAR)
                        /\ new.name = c.name \o <<" ","L","i","n","e","a","r">>
                        /\ new.linear_source = c
                   ELSE /\ ValueEqual(new, c)
                        /\ new.transfer_functions = c.transfer_functions
                        /\ new.linear_source = NoneObject

\* the linear copy of sRGB was asked for while another colorspace was disabled
C12_Witness ==
    /\ called = "get_colorspace"
    /\ arg_target.force_linear
    /\ arg_target.name = <<"s","r","g","b">>
    /\ scopes # <<>>
    /\ returned.value # NoneObject
    /\ returned.value.transfer_functions = TRANSFER_FUNCTIONS_LINEAR
    /\ returned.value.linear_source # NoneObject

\* C12, as the claim has it: for every name for which get_colorspace(name)
\* returns a colorspace, get_colorspace(name, force_linear=True) returns a
\* colorspace whose transfer functions equal TRANSFER_FUNCTIONS_LINEAR.
C12_AsClaimed ==
    (called = "get_colorspace" /\ arg_target.force_linear
     /\ Resolved(arg_target.name).value # NoneObject) =>
        /\ returned.value # NoneObject
        /\ TransferFunctionsEqual(returned.value.transfer_functions,
                                  TRANSFER_FUNCTIONS_LINEAR)

\* a colorspace with a gamut, a whitepoint and two matrices that are inverses
Invertible(c) ==
    /\ c.gamut # NoneObject
    /\ c.whitepoint # NoneObject
    /\ c.matrix_to_XYZ # NoArray
    /\ c.matrix_from_XYZ # NoArray
    /\ matrix_dot(c.matrix_from_XYZ, c.matrix_to_XYZ) = Identity3
    /\ matrix_dot(c.matrix_to_XYZ, c.matrix_from_XYZ) = Identity3

\* C24: for colorspaces A and B that have a gamut, a whitepoint and matrices
\* with matrix_from_XYZ the inverse of matrix_to_XYZ, and every adaptation
\* transform T, matrix_colorspace_to_colorspace(B, A, T) times
\* matrix_colorspace_to_colorspace(A, B, T) is the identity matrix.
C24_RoundTripMatrix ==
    (/\ called = "matrix_colorspace_to_colorspace"
     /\ Invertible(arg_source)
     /\ Invertible(arg_target)) =>
        LET back == matrix_colorspace_to_colorspace(arg_target, arg_source,
                                                    arg_transform)
        IN /\ returned.status = "ok"
           /\ back.status = "ok"
           /\ matrix_dot(back.value, returned.value) = Identity3

\* two colorspaces with other whitepoints and other matrices, under an
\* adaptation: the matrix from one to the other is not the identity
C24_Witness ==
    /\ called = "matrix_colorspace_to_colorspace"
    /\ Invertible(arg_source)
    /\ Invertible(arg_target)
    /\ arg_transform # NoTransform
    /\ arg_source.whitepoint # arg_target.whitepoint
    /\ arg_source.matrix_to_XYZ # arg_target.matrix_to_XYZ
    /\ returned.status = "ok"
    /\ returned.value # Identity3
    /\ returned.stages = <<"matrix_to_XYZ", "adaptation", "matrix_from_XYZ">>

\* C28: with_transfer_functions, with_descriptives and as_linear_copy keep the
\* provenance flags of the receiver: the result reports matrix_to_XYZ_derived
\* and matrix_from_XYZ_derived as the receiver does.
C28_FlagsPreserved ==
    called \in {"with_transfer_functions", "with_descriptives", "as_linear_copy"} =>
        /\ returned.value.matrix_to_XYZ_derived
             = arg_source.value.matrix_to_XYZ_derived
        /\ returned.value.matrix_from_XYZ_derived
             = arg_source.value.matrix_from_XYZ_derived

\* C29: a colorspace that copy, as_linear_copy, with_derived_matrices,
\* with_gamut, with_whitepoint, with_transfer_functions or with_descriptives
\* returns, on a receiver these methods built, and that is_linear_copy, has
\* transfer functions that are present and linear in both directions.
C29_LinearCopyIsLinear ==
    (called \in CopyingMethods /\ is_linear_copy(returned)) =>
        /\ returned.value.transfer_functions # NoneObject
        /\ returned.value.transfer_functions.encoding = NoCallable
        /\ returned.value.transfer_functions.decoding = NoCallable

\* C30: matrix_colorspace_to_colorspace, colorspace_to_XYZ, XYZ_to_colorspace
\* and colorspace_to_colorspace never reach a matrix product with an absent
\* matrix: the matrix used is present, or the call fails with ValueError
\* before the product.
C30_NoAbsentMatrixProduct ==
    called \in {"matrix_colorspace_to_colorspace", "colorspace_to_XYZ",
                "XYZ_to_colorspace", "colorspace_to_colorspace"} =>
        returned.status \in {"ok", "ValueError"}

\* C23: in every reachable state of the registry, under any stack of active
\* scopes, the tuples of get_available_colorspaces_names_aliases partition the
\* keys of get_available_colorspaces_names, which are the enabled keys: every
\* enabled key is in exactly one tuple, two keys share a tuple exactly when
\* they resolve to equal colorspaces, and there are as many tuples as there
\* are colorspaces in get_available_colorspaces(), which holds no two equal
\* colorspaces and is sorted by name.
C23_AliasesPartition ==
    LET names == get_available_colorspaces_names(COLORSPACES,
                                                 COLORSPACES_KEYS_DISABLED)
        names_aliases ==
            get_available_colorspaces_names_aliases(COLORSPACES,
                                                    COLORSPACES_KEYS_DISABLED)
        colorspaces == get_available_colorspaces(COLORSPACES,
                                                 COLORSPACES_KEYS_DISABLED)
        enabled == RegistryKeys(COLORSPACES) \ DisabledSet
        tuples == 1..Len(names_aliases.value)
        repr == [k \in enabled |-> RgbColorspace_tuplerepr(DictGet(COLORSPACES, k))]
    IN /\ names.status = "ok"
       /\ names_aliases.status = "ok"
       /\ colorspaces.status = "ok"
       /\ SeqToSet(names.value) = enabled
       /\ Len(names.value) = Cardinality(enabled)
       /\ \A i \in tuples :
            /\ names_aliases.value[i] # <<>>
            /\ SeqToSet(names_aliases.value[i]) \subseteq enabled
            /\ Len(names_aliases.value[i])
                 = Cardinality(SeqToSet(names_aliases.value[i]))
       /\ \A k \in enabled :
            Cardinality({i \in tuples : k \in SeqToSet(names_aliases.value[i])}) = 1
       /\ \A k1, k2 \in enabled :
            (\E i \in tuples : {k1, k2} \subseteq SeqToSet(names_aliases.value[i]))
                <=> repr[k1] = repr[k2]
       /\ Len(names_aliases.value) = Len(colorspaces.value)
       /\ \A i, j \in 1..Len(colorspaces.value) :
            /\ i # j => ~ValueEqual(colorspaces.value[i], colorspaces.value[j])
            /\ i < j => StrLessEq(colorspaces.value[i].name,
                                  colorspaces.value[j].name)

\* under two scopes the listing still holds a tuple of several aliases, and
\* fewer tuples than the registry has colorspaces
C23_Witness ==
    LET names_aliases ==
            get_available_colorspaces_names_aliases(COLORSPACES,
                                                    COLORSPACES_KEYS_DISABLED)
    IN /\ Len(scopes) = 2
       /\ DisabledSet # {}
       /\ names_aliases.status = "ok"
       /\ Len(names_aliases.value) > 1
       /\ \E i \in 1..Len(names_aliases.value) : Len(names_aliases.value[i]) > 2
       /\ <<"a","p","1">> \in DisabledSet

\* C25: when disable_colorspaces(names) fails on entry because a name of names
\* is no key of the registry, the disabled keys afterwards are those of before
\* the call: the aliases of the names that precede the unknown one do not
\* stay disabled.
C25_FailedEntryRestores ==
    last.op = "enter_failed" =>
        COLORSPACES_KEYS_DISABLED = last.history.before

(***************************************************************************)
(* Scopes that all succeed on entry (SpecNested), and scopes held by        *)
(* threads (SpecThreads): a thread holds one scope, the threads enter one   *)
(* after the other and exit in any order.  An entry and an exit are one     *)
(* step each: the interleavings inside an entry add behaviours to these.    *)
(***************************************************************************)

\* the lists of names that hold keys of the registry alone
NestedNameLists == { names \in NameLists : Unknown_name \notin SeqToSet(names) }

NextNested ==
    \/ \E names \in NestedNameLists : Enter(names) /\ UNCHANGED transformVars
    \/ ExitReturn /\ UNCHANGED transformVars
    \/ ExitRaise /\ UNCHANGED transformVars
    \/ Catch /\ UNCHANGED transformVars

SpecNested == Init /\ [][NextNested]_vars

\* the threads that hold a scope at one time
MaxThreads == 2

\* the lists of names the threads give: one colorspace each
ThreadNameLists ==
    { << <<"s","R","G","B">> >>, << <<"a","p","1">>, ACEScg_name, <<"a","p","1">> >> }

RemoveAt(seq, i) == SubSeq(seq, 1, i - 1) \o SubSeq(seq, i + 1, Len(seq))

ThreadEnter(names) ==
    /\ Len(scopes) < MaxThreads
    /\ Enter(names)

\* the finally clause of the scope entered i-th among the active ones: the
\* thread that holds it leaves its with block
ThreadExit(i) ==
    /\ i \in 1..Len(scopes)
    /\ COLORSPACES_KEYS_DISABLED' =
           RestoreDisabled(scopes[i].previous_disabled, COLORSPACES_KEYS_DISABLED)
    /\ scopes' = RemoveAt(scopes, i)
    /\ entered' = RemoveAt(entered, i)
    /\ last' = [op |-> "exit",
                kind |-> IF i = Len(scopes) THEN "return" ELSE "overlap",
                history |-> entered[i]]
    /\ UNCHANGED <<COLORSPACES, exc>>

NextThreads ==
    \/ \E names \in ThreadNameLists : ThreadEnter(names) /\ UNCHANGED transformVars
    \/ \E i \in 1..MaxThreads : ThreadExit(i) /\ UNCHANGED transformVars

SpecThreads == Init /\ [][NextThreads]_vars

\* C26: after any sequence of properly nested entries and exits of
\* disable_colorspaces, a name listed twice, two aliases of one colorspace in
\* one call and names an outer scope disabled included, the list of disabled
\* keys holds keys of the registry alone and holds no key twice, so the enabled
\* dataset is computed without failure and get_colorspace and the listing
\* functions return; with no scope active the list is empty and every key is
\* enabled.
C26_DisabledKeysWellFormed ==
    LET dataset == colorspaces_dataset(COLORSPACES, COLORSPACES_KEYS_DISABLED)
        lookup == Lookup(COLORSPACES, COLORSPACES_KEYS_DISABLED)
    IN /\ DisabledSet \subseteq RegistryKeys(COLORSPACES)
       /\ Len(COLORSPACES_KEYS_DISABLED) = Cardinality(DisabledSet)
       /\ dataset.status = "ok"
       /\ \A k \in RegistryKeys(COLORSPACES) : lookup[k] >= 0
       /\ get_available_colorspaces(COLORSPACES,
                                    COLORSPACES_KEYS_DISABLED).status = "ok"
       /\ get_available_colorspaces_names(COLORSPACES,
                                          COLORSPACES_KEYS_DISABLED).status = "ok"
       /\ get_available_colorspaces_names_aliases(COLORSPACES,
                                          COLORSPACES_KEYS_DISABLED).status = "ok"
       /\ scopes = <<>> =>
            /\ COLORSPACES_KEYS_DISABLED = <<>>
            /\ \A k \in RegistryKeys(COLORSPACES) : lookup[k] > 0

\* an inner scope was entered with an alias twice and the name of a colorspace
\* the outer scope had disabled, and the list of disabled keys did not grow
C26_Witness ==
    /\ Len(scopes) = 2
    /\ last.op = "enter"
    /\ last.history.names = << <<"a","p","1">>, ACEScg_name, <<"a","p","1">> >>
    /\ last.history.before # <<>>
    /\ last.history.after = last.history.before
    /\ ACEScg_name \in DisabledSet

\* C27: the finally clause of a scope restores the snapshot the scope took on
\* entry, whatever the other threads did since.  When the scope of one thread
\* exits while a scope another thread entered later is active, the keys that
\* this later scope disabled are visible again although it is active; and when
\* the last scope exits the list of disabled keys is its snapshot, which holds
\* the keys of the scopes that were active at its entry although no scope is
\* active any more.
C27_OverlapBreaksRestore ==
    last.op = "exit" =>
        LET lookup == Lookup(COLORSPACES, COLORSPACES_KEYS_DISABLED)
        IN /\ COLORSPACES_KEYS_DISABLED = last.history.before
           /\ \A j \in 1..Len(entered) :
                \A k \in SeqToSet(entered[j].after) \ SeqToSet(last.history.before) :
                    lookup[k] > 0
           /\ \A k \in SeqToSet(last.history.before) : lookup[k] = 0

\* enter 1, enter 2, exit 1, exit 2: no scope is active and the keys of the
\* first scope are disabled
C27_Witness ==
    /\ scopes = <<>>
    /\ last.op = "exit"
    /\ last.history.names = << <<"s","R","G","B">> >>
    /\ ACEScg_name \in DisabledSet
    /\ <<"s","R","G","B">> \notin DisabledSet
    /\ get_colorspace(COLORSPACES, COLORSPACES_KEYS_DISABLED,
                      ACEScg_name).value = NoneObject

\* the identities in a record of arrays
ArraysOf(arrays) == { arrays[f] : f \in DOMAIN arrays }

\* C21: every array held by a value that a from_colour_colorspace adapter
\* builds (the coordinates of the Whitepoint, the primaries of the
\* ColorspaceGamut, the two matrices of the RgbColorspace) is storage distinct
\* from the arrays of the source record.
C21_AdapterCopiesArrays ==
    called = "from_colour_colorspace" =>
        ArraysOf(returned.arrays) \cap ArraysOf(arg_target.arrays) = {}

(***************************************************************************)
(* The build of the registry, run again (SpecBuild): _load_colorspaces has *)
(* no guard, and a call builds the colorspaces anew and sets their keys.   *)
(* last.history.lookup is what get_colorspace returned before the call.    *)
(***************************************************************************)

\* the builds of one process, the one of the import included
MaxBuilds == 3

\* the greatest identity of the objects the registry holds
LastObjectId(registry) ==
    LET ids == { registry[i].value.id : i \in 1..Len(registry) }
    IN CHOOSE m \in ids : \A x \in ids : x <= m

ObjectsPerBuild == Len(colour_colorspace_config) + 2

Call_load_colorspaces ==
    /\ ~exc
    /\ LastObjectId(COLORSPACES) < MaxBuilds * ObjectsPerBuild
    /\ \E derived \in BOOLEAN :
         COLORSPACES' = load_colorspaces(COLORSPACES, LastObjectId(COLORSPACES),
                                         derived)
    /\ last' = [op |-> "load", kind |-> "none",
                history |-> [before |-> COLORSPACES_KEYS_DISABLED,
                             lookup |-> Lookup(COLORSPACES, COLORSPACES_KEYS_DISABLED),
                             after |-> COLORSPACES_KEYS_DISABLED,
                             names |-> <<>>]]
    /\ UNCHANGED <<COLORSPACES_KEYS_DISABLED, scopes, exc, entered>>

NextBuild ==
    \/ Call_load_colorspaces /\ UNCHANGED transformVars
    \/ Call_get_colorspace

SpecBuild == InitBrowse /\ [][NextBuild]_vars

\* C22: the build of the registry takes effect at most once: when the build
\* is invoked again, every key of the registry maps to the instance it mapped
\* to before, so what get_colorspace returned before is what it returns after.
C22_BuildOnce ==
    last.op = "load" =>
        /\ RegistryKeys(COLORSPACES) = DOMAIN last.history.lookup
        /\ \A k \in RegistryKeys(COLORSPACES) :
             Lookup(COLORSPACES, COLORSPACES_KEYS_DISABLED)[k]
                = last.history.lookup[k]

=============================================================================
